---- MODULE Spec2Model ----
(***************************************************************************)
(* Room presence and rendezvous service of voice-room.                     *)
(*                                                                         *)
(* The repository holds three builds of the presence endpoint              *)
(* /api/rooms/presence:                                                    *)
(*   "redis" : src/app/api/rooms/presence/route.ts (Redis hash per room)   *)
(*   "memA"  : src/app/_services/room-service.ts   (in-process cache,      *)
(*             30 s refresh shortcut, room-existence check)                *)
(*   "memB"  : src/unnamed/part_000                (in-process cache,      *)
(*             evict-and-push, duplicate filter in GET)                    *)
(* The variable `variant` says which build serves the requests.            *)
(*                                                                         *)
(* Time is the server's Date.now() in milliseconds.                        *)
(***************************************************************************)
EXTENDS Integers, Sequences, FiniteSets, TLC

(***************************************************************************)
(* Bounds of the model.                                                    *)
(***************************************************************************)
TickMs == 60000
MaxTicks == 3
MaxInflight == 2
MaxRequests == 3

(***************************************************************************)
(* Program constants.                                                      *)
(***************************************************************************)
PRESENCE_TIMEOUT == 120000
ROOM_EXPIRY == 5 * 24 * 60 * 60
CACHE_TTL == 5 * 60 * 1000
LIFETIME_DAYS == 5
DayMs == 24 * 60 * 60 * 1000

\* date-fns addDays on a time in milliseconds (a day of 24 hours).
addDays(t, days) == t + days * DayMs

(***************************************************************************)
(* Input domains.                                                          *)
(***************************************************************************)
Rooms == {"r1", "r10"}
Users == {"u1", "u2"}
Peers == {"peerA", "peerB"}
\* The participant ids that the requests for a room carry: u1 and u2 for r1,
\* u1 for r10.
Members(room) == IF room = "r1" THEN {"u1", "u2"} ELSE {"u1"}
Variants == {"redis", "memA", "memB"}

NoUser == "-"
NoExpire == -1

VARIABLES
  variant,        \* which build of the presence endpoint is deployed
  now,            \* server clock, Date.now()
  roomTable,      \* prisma Room collection: the documents, in insertion order
  redisHash,      \* Redis: room -> hash (userId -> JSON text) of key room:<id>:participants
  redisExpireAt,  \* Redis: room -> time at which the key expires, NoExpire if none
  presenceCache,  \* memA: room -> the array held by the Map (NoRef: no entry)
  arrays,         \* memA: array reference -> the element objects, in order
  objects,        \* memA: object reference -> the presence entry object
  presenceCacheB, \* memB: room -> the array held by the Map, by value
  roomExistenceCache, \* memA, memB: room -> cached existence check
  inflight,       \* memA, memB: handlers suspended in an await, by slot
  requests,       \* memA, memB: number of requests received so far
  rateLimitMap,   \* memA, memB: request key -> time of the request
  admitted,       \* history: the requests that checkRateLimit let through
  lastResp,       \* the response of the request that completed last
  hook,           \* client: which usePeerVoiceChat of the file is mounted
  mounted,        \* client: the init effect's `mounted` flag
  peerRef,        \* client: peerRef.current ("null" or "peer")
  peerState,      \* client: the Peer object's link to the PeerJS server
  localStreamRef, \* client: localStreamRef.current and its tracks
  isConnected,    \* client: the isConnected state
  error,          \* client: the error state
  participantIds, \* client: the participants state
  peersRef,       \* client: peersRef.current, userId -> call held by the entry
  calls,          \* client: the media calls made or answered, in order
  pollIntervals,  \* client: live setInterval(fetchParticipants) timers
  participantPollingIntervalRef, \* client: what the ref holds
  presenceIntervals,   \* client: live setInterval(broadcastPresence) timers
  presenceIntervalRef, \* client: what the ref holds
  pendingFetch,   \* client: requests and handlers suspended in an await
  reconnectAttemptsRef, \* client: reconnectAttemptsRef.current
  firstAnnounce,  \* history: outcome of the announce the open handler awaited
  lastEvent,      \* history: the client handler that ran last
  localStorage,   \* client: the item voicechat-userid-<roomId> of the browser
  userIdCurrent,  \* client: the uuid held by userIdRef.current (NoItem: "")
  uuidCount,      \* client: number of uuidv4() results drawn so far
  screenStream,   \* client: the screenStream state ("null" or "live")
  explicitLeave,  \* history: the user left since the agent was initialised
  rendezvous,     \* PeerJS server: the endpoints registered, the last id stripped
  iceRestarts     \* client: call -> number of restartIce() on its connection

memVars == <<presenceCache, arrays, objects, presenceCacheB, roomExistenceCache,
             inflight, requests>>
rateVars == <<rateLimitMap, admitted>>

agentVars == <<hook, mounted, peerRef, peerState, localStreamRef, isConnected,
               error, participantIds, peersRef, calls, pollIntervals,
               participantPollingIntervalRef, presenceIntervals,
               presenceIntervalRef, pendingFetch, reconnectAttemptsRef,
               firstAnnounce, lastEvent, localStorage, userIdCurrent,
               uuidCount, screenStream, explicitLeave, rendezvous,
               iceRestarts>>

vars == <<variant, now, roomTable, redisHash, redisExpireAt, memVars, rateVars,
          lastResp, agentVars>>

(***************************************************************************)
(* The client hook at rest: the specifications of the server alone keep    *)
(* the hook unmounted.                                                     *)
(***************************************************************************)
\* userIdRef.current: the id of the agent the hook runs for.
userIdRef == "u1"

\* The user ids of the other agents of the room.
Others == {"u2", "u3"}

\* peersRef.current.get(userId) === undefined.
NoCall == 0

\* No connection was restarted.  The calls are numbered from 1.
NoRestarts == <<0, 0, 0, 0>>

\* No Peer was created and no call received.
NoRendezvous == [registered |-> {}, stripped |-> <<>>]

\* localStorage.getItem of an absent item (null), and the empty user id.
NoItem == 0

NoEvent == [op |-> "none", call |-> NoCall, ok |-> TRUE]

NoFetch == [media |-> FALSE, polls |-> 0, announces |-> <<>>, opens |-> 0,
            removes |-> 0, removed |-> FALSE]

InitAgentIdle ==
  /\ hook = "v2"
  /\ mounted = FALSE
  /\ peerRef = "null"
  /\ peerState = "none"
  /\ localStreamRef = "null"
  /\ isConnected = FALSE
  /\ error = "null"
  /\ participantIds = {}
  /\ peersRef = [u \in Others |-> NoCall]
  /\ calls = <<>>
  /\ pollIntervals = 0
  /\ participantPollingIntervalRef = "null"
  /\ presenceIntervals = 0
  /\ presenceIntervalRef = "null"
  /\ pendingFetch = NoFetch
  /\ reconnectAttemptsRef = 0
  /\ firstAnnounce = "none"
  /\ lastEvent = NoEvent
  /\ localStorage = NoItem
  /\ userIdCurrent = NoItem
  /\ uuidCount = 0
  /\ screenStream = "null"
  /\ explicitLeave = FALSE
  /\ rendezvous = NoRendezvous
  /\ iceRestarts = NoRestarts

(***************************************************************************)
(* Helpers.                                                                *)
(***************************************************************************)
EmptyHash == [u \in {} |-> <<>>]

RECURSIVE SetToSeq(_)
SetToSeq(S) ==
  IF S = {} THEN <<>>
  ELSE LET x == CHOOSE y \in S : TRUE IN <<x>> \o SetToSeq(S \ {x})

\* JSON.stringify of a ParticipantData object: the text lists the three
\* properties in insertion order.
JSONStringify(p) ==
  << <<"userId", p.userId>>, <<"peerId", p.peerId>>, <<"timestamp", p.timestamp>> >>

\* JSON.parse of such a text: the object with the listed properties.
JSONParse(text) ==
  [userId |-> text[1][2], peerId |-> text[2][2], timestamp |-> text[3][2]]

\* A property that an object does not have reads as undefined; in arithmetic
\* undefined gives NaN, and every comparison with NaN is false.
UndefinedNumber == -1
UndefinedString == "undefined"

\* null, as parseParticipantData returns it.
Null == [userId |-> NoUser, peerId |-> "null", timestamp |-> UndefinedNumber]

\* Stored texts that are not the text of an object: the empty string, a text
\* that JSON.parse rejects, and the text `null`.
EmptyText == <<>>
BrokenText == << <<"{", "{">> >>
NullText == << <<"null", "null">> >>

\* parseParticipantData: null for no data, for a text JSON.parse throws on and
\* for the text null, else the parsed object.
parseParticipantData(data) == IF Len(data) = 3 THEN JSONParse(data) ELSE Null

\* Timestamps a client may put into an announce processed at time t: the
\* announce may have been delayed, and the client's clock may be ahead.
ClientTimestamps(t) == {ts \in {t - TickMs, t, t + TickMs} : ts >= 0}

\* The in-process builds are exercised with the participants of r1 and with
\* announces that are on time or one tick late; r10, which has no Room row, is
\* listed, and in memA announced to by u1.
MemMembers(room) == IF room = "r1" THEN {"u1", "u2"} ELSE {}
MemAPosters(room) == IF room = "r1" THEN {"u1", "u2"} ELSE {"u1"}
DelayedTimestamps(t) == {ts \in {t - TickMs, t} : ts >= 0}

\* What the model keeps of the response that was sent last: the operation,
\* the HTTP status and, for an announce, the userId of the body.  The
\* participants array of a list's body is RedisGETBody, MemAGETBody, MemBGETBody.
Response(op, status, userId) == [op |-> op, status |-> status, userId |-> userId]

NoResponse == Response("none", 0, NoUser)

(***************************************************************************)
(* Redis: a key whose expiry time has passed is gone.                      *)
(***************************************************************************)
RedisKeyLive(expireAt, t) == expireAt = NoExpire \/ t < expireAt

\* HGETALL on a key with the given hash and expiry time, at time t.
hgetallOf(hash, expireAt, t) == IF RedisKeyLive(expireAt, t) THEN hash ELSE EmptyHash

hgetall(room, t) == hgetallOf(redisHash[room], redisExpireAt[room], t)

(***************************************************************************)
(* GET /api/rooms/presence (redis build).                                  *)
(***************************************************************************)
\* The filter with `>` for `>=`: it keeps a record that is exactly
\* PRESENCE_TIMEOUT old.  C4 must tell the two apart.
IsActiveParticipantOffByOne(data, t) ==
  LET participant == parseParticipantData(data)
  IN ~(t - participant.timestamp > PRESENCE_TIMEOUT)

\* The filter of the GET handler: parsed, and younger than PRESENCE_TIMEOUT.
IsActiveParticipant(data, t) ==
  LET participant == parseParticipantData(data)
  IN ~(\/ participant = Null
       \/ /\ participant.timestamp # UndefinedNumber
          /\ t - participant.timestamp >= PRESENCE_TIMEOUT)

\* The response without the age filter.  C5 must tell the two apart.
activeParticipantsUnfiltered(participants, t) ==
  LET order == SetToSeq(DOMAIN participants)
  IN [i \in 1..Len(order) |->
        [userId |-> order[i],
         peerId |-> parseParticipantData(participants[order[i]]).peerId,
         timestamp |-> parseParticipantData(participants[order[i]]).timestamp]]

activeParticipants(participants, t) ==
  LET keep == {u \in DOMAIN participants : IsActiveParticipant(participants[u], t)}
      entry(u) == [userId |-> u,
                   peerId |-> parseParticipantData(participants[u]).peerId,
                   timestamp |-> parseParticipantData(participants[u]).timestamp]
      order == SetToSeq(keep)
  IN [i \in 1..Len(order) |-> entry(order[i])]

\* The participants array of the response body of a GET evaluated at time t.
RedisGETBody(room, t) == activeParticipants(hgetall(room, t), t)

\* hgetall is the handler's only access to the store: the request takes
\* effect at that command.
RedisGET(room) ==
  /\ variant = "redis"
  /\ lastResp' = Response("GET", 200, NoUser)
  /\ UNCHANGED <<rateVars, agentVars, variant, now, roomTable, redisHash, redisExpireAt, memVars>>

(***************************************************************************)
(* POST /api/rooms/presence (redis build).                                 *)
(***************************************************************************)
\* uuidv4(): an id no stored record uses.
FreshUserIds(room) ==
  {u \in Members(room) : \A r \in Rooms : u \notin DOMAIN redisHash[r]}

\* A write that replaces the hash by the one field.  C8 must tell the two apart.
hsetReplacing(hash, field, value) == [f \in {field} |-> value]

hset(hash, field, value) ==
  [f \in DOMAIN hash \cup {field} |-> IF f = field THEN value ELSE hash[f]]

RedisStore(room, userId, peerId, timestamp) ==
  LET participantData == [userId |-> userId, peerId |-> peerId, timestamp |-> timestamp]
  IN /\ redisHash' = [redisHash EXCEPT
                        ![room] = hset(hgetall(room, now), userId,
                                       JSONStringify(participantData))]
     /\ redisExpireAt' = [redisExpireAt EXCEPT ![room] = now + ROOM_EXPIRY * 1000]
     /\ lastResp' = Response("POST", 200, userId)

RedisPOST(room, bodyUserId, peerId, timestamp) ==
  /\ variant = "redis"
  /\ IF bodyUserId = NoUser
       THEN \E userId \in FreshUserIds(room) : RedisStore(room, userId, peerId, timestamp)
       ELSE RedisStore(room, bodyUserId, peerId, timestamp)
  /\ UNCHANGED <<rateVars, agentVars, variant, now, roomTable, memVars>>

(***************************************************************************)
(* DELETE /api/rooms/presence (redis build).                               *)
(***************************************************************************)
\* A removal that empties the hash.  C9 must tell the two apart.
hdelEverything(hash, field) == [f \in {} |-> hash[f]]

hdel(hash, field) == [f \in DOMAIN hash \ {field} |-> hash[f]]

RedisDELETE(room, userId) ==
  /\ variant = "redis"
  /\ LET after == hdel(hgetall(room, now), userId)
     IN /\ redisHash' = [redisHash EXCEPT ![room] = after]
        \* a hash that lost its last field is removed, with its expiry
        /\ redisExpireAt' = [redisExpireAt EXCEPT
                               ![room] = IF after = EmptyHash THEN NoExpire ELSE @]
  /\ lastResp' = Response("DELETE", 200, NoUser)
  /\ UNCHANGED <<rateVars, agentVars, variant, now, roomTable, memVars>>

(***************************************************************************)
(* The in-process builds (memA, memB): what they share.                    *)
(***************************************************************************)
NoRef == 0
Slots == 1..MaxInflight

\* A suspended handler: its kind, its request and its local variables.
\* participants is the local array of a memA handler (a reference), snapshot
\* the local array of a memB handler (memB never changes an array in place,
\* so its value is the value it had when it was read).
Continuation(kind, room, userId, peerId, timestamp, participants, snapshot, t) ==
  [kind |-> kind, room |-> room, userId |-> userId, peerId |-> peerId,
   timestamp |-> timestamp, participants |-> participants, snapshot |-> snapshot,
   now |-> t]

Idle == Continuation("idle", "-", NoUser, "-", 0, NoRef, <<>>, 0)

FreeSlots == {s \in Slots : inflight[s].kind = "idle"}
FirstFreeSlot == CHOOSE s \in FreeSlots : \A s2 \in FreeSlots : s <= s2

ExistenceEntry(cached, exists, expiresAt) ==
  [cached |-> cached, exists |-> exists, expiresAt |-> expiresAt]

NoExistenceEntry == ExistenceEntry(FALSE, FALSE, 0)

\* roomExists answers from the cache while the cached result is not expired.
roomExistsCached(room, t) ==
  roomExistenceCache[room].cached /\ roomExistenceCache[room].expiresAt > t

\* A document of the Room collection.
RoomRow(roomId, expiresAt, active) ==
  [roomId |-> roomId, expiresAt |-> expiresAt, active |-> active]

NoRow == RoomRow("-", 0, FALSE)

\* prisma.room.findUnique({where: {roomId}}): the document with that roomId,
\* null (NoRow) if there is none.
findUnique(table, roomId) ==
  LET hits == {i \in 1..Len(table) : table[i].roomId = roomId}
  IN IF hits = {} THEN NoRow ELSE table[CHOOSE i \in hits : \A j \in hits : i <= j]

\* roomExists: findUnique, then `!!room`.
prismaRoomFound(room) == findUnique(roomTable, room) # NoRow

\* roomExistenceCache.set(roomId, {exists, expiresAt: now + CACHE_TTL}), with
\* the Date.now() that roomExists read before the query.
roomExistenceCacheSet(room, exists, t) ==
  [roomExistenceCache EXCEPT ![room] = ExistenceEntry(TRUE, exists, t + CACHE_TTL)]

\* A request arrives; the model follows an in-process build for MaxRequests
\* requests.
Receive ==
  /\ requests < MaxRequests
  /\ requests' = requests + 1

PresenceEntry(userId, peerId, timestamp, lastUpdated) ==
  [userId |-> userId, peerId |-> peerId, timestamp |-> timestamp,
   lastUpdated |-> lastUpdated]

\* participants.map((p) => ({userId, peerId, timestamp}))
simplifiedParticipants(participants) ==
  [i \in 1..Len(participants) |->
     [userId |-> participants[i].userId, peerId |-> participants[i].peerId,
      timestamp |-> participants[i].timestamp]]

\* self.findIndex((t) => t.userId === userId)
findIndex(self, userId) ==
  LET hits == {i \in 1..Len(self) : self[i].userId = userId}
  IN IF hits = {} THEN 0 ELSE CHOOSE i \in hits : \A j \in hits : i <= j

(***************************************************************************)
(* memA: src/app/_services/room-service.ts.                                *)
(*                                                                         *)
(* The handlers change arrays and entry objects in place (push, and the    *)
(* assignment to existingParticipant), and a suspended handler keeps the   *)
(* array it read: arrays and objects are modelled by reference.            *)
(***************************************************************************)
\* The entry objects of an array, by value.
Deref(objs, oids) == [i \in 1..Len(oids) |-> objs[oids[i]]]

RECURSIVE Distinct(_)
\* The sequence without the later occurrences of its elements.
Distinct(s) ==
  IF s = <<>> THEN <<>>
  ELSE LET front == Distinct(SubSeq(s, 1, Len(s) - 1))
           last == s[Len(s)]
       IN IF \E i \in 1..Len(front) : front[i] = last THEN front ELSE Append(front, last)

RECURSIVE Flatten(_)
Flatten(ss) == IF ss = <<>> THEN <<>> ELSE Head(ss) \o Flatten(Tail(ss))

RECURSIVE SetToSortedSeq(_)
\* The numbers of a set in increasing order: filter keeps the array's order.
SetToSortedSeq(S) ==
  IF S = {} THEN <<>>
  ELSE LET x == CHOOSE y \in S : \A z \in S : y <= z IN <<x>> \o SetToSortedSeq(S \ {x})

IndexOf(s, x) == CHOOSE i \in 1..Len(s) : s[i] = x

RoomOrder == SetToSeq(Rooms)

\* The state after a memA step.  A reference is only a name: arrays and
\* objects that nothing refers to any more are collected, and the others are
\* numbered in the order in which the Map and the suspended handlers reach
\* them.
MemACommit(cache2, arrays2, objects2, inflight2) ==
  LET roots == [i \in 1..Len(RoomOrder) |-> cache2[RoomOrder[i]]]
                 \o [s \in Slots |-> inflight2[s].participants]
      liveRefs == Distinct(SelectSeq(roots, LAMBDA r : r # NoRef))
      liveOids == Distinct(Flatten([k \in 1..Len(liveRefs) |-> arrays2[liveRefs[k]]]))
      ref(r) == IF r = NoRef THEN NoRef ELSE IndexOf(liveRefs, r)
  IN /\ presenceCache' = [r \in Rooms |-> ref(cache2[r])]
     /\ arrays' = [k \in 1..Len(liveRefs) |->
                     [i \in 1..Len(arrays2[liveRefs[k]]) |->
                        IndexOf(liveOids, arrays2[liveRefs[k]][i])]]
     /\ objects' = [k \in 1..Len(liveOids) |-> objects2[liveOids[k]]]
     /\ inflight' = [s \in Slots |->
                       [inflight2[s] EXCEPT !.participants = ref(@)]]

\* A new array: `[]`, or the result of filter.
NewRef(arrays1) == Len(arrays1) + 1

\* `presenceCache.get(roomId) || []`: the cached array, or a new empty one.
MemALocal(room) ==
  IF presenceCache[room] # NoRef THEN presenceCache[room] ELSE NewRef(arrays)

MemAArrays(room) ==
  IF presenceCache[room] # NoRef THEN arrays ELSE Append(arrays, <<>>)

\* participants.push({...}); presenceCache.set(roomId, participants)
MemAPush(room, participants, arrays1, entry, inflight2) ==
  LET oid == Len(objects) + 1
  IN MemACommit([presenceCache EXCEPT ![room] = participants],
                [arrays1 EXCEPT ![participants] = Append(@, oid)],
                Append(objects, entry), inflight2)

\* The elements of participants.filter((p) => p.userId !== userId).
MemAWithoutUser(objs, oids, userId) ==
  SelectSeq(oids, LAMBDA o : objs[o].userId # userId)

MemAPOST(room, userId, peerId, timestamp, rateOk) ==
  /\ variant = "memA"
  /\ Receive
  /\ LET participants == MemALocal(room)
         arrays1 == MemAArrays(room)
         oids == arrays1[participants]
         found == findIndex(Deref(objects, oids), userId)
         entry == PresenceEntry(userId, peerId, timestamp, now)
     IN IF ~rateOk
          THEN /\ lastResp' = Response("POST", 429, NoUser)
               /\ UNCHANGED <<presenceCache, arrays, objects, inflight, roomExistenceCache>>
        ELSE IF found # 0 /\ now - objects[oids[found]].lastUpdated < 30000
          THEN \* "Just update the timestamp": the found object is changed in place
               /\ MemACommit([presenceCache EXCEPT ![room] = participants], arrays1,
                             [objects EXCEPT ![oids[found]].timestamp = timestamp,
                                             ![oids[found]].lastUpdated = now],
                             inflight)
               /\ lastResp' = Response("POST", 200, NoUser)
               /\ UNCHANGED roomExistenceCache
        ELSE IF found # 0
          THEN \* remove the existing entries into a new array, push onto it
               LET kept == MemAWithoutUser(objects, oids, userId)
               IN /\ MemAPush(room, NewRef(arrays1), Append(arrays1, kept), entry, inflight)
                  /\ lastResp' = Response("POST", 200, NoUser)
                  /\ UNCHANGED roomExistenceCache
        ELSE IF ~roomExistsCached(room, now)
          THEN \* a new participant: roomExists awaits the database
               /\ FreeSlots # {}
               /\ MemACommit(presenceCache, arrays1, objects,
                    [inflight EXCEPT ![FirstFreeSlot] =
                       Continuation("POST", room, userId, peerId, timestamp,
                                    participants, <<>>, now)])
               /\ UNCHANGED <<lastResp, roomExistenceCache>>
        ELSE IF ~roomExistenceCache[room].exists
          THEN /\ lastResp' = Response("POST", 404, NoUser)
               /\ UNCHANGED <<presenceCache, arrays, objects, inflight, roomExistenceCache>>
        ELSE /\ MemAPush(room, participants, arrays1, entry, inflight)
             /\ lastResp' = Response("POST", 200, NoUser)
             /\ UNCHANGED roomExistenceCache
  /\ UNCHANGED <<agentVars, variant, now, roomTable, redisHash, redisExpireAt, presenceCacheB>>

\* The database answered the roomExists of a suspended POST.
MemAPOSTResume(slot) ==
  /\ variant = "memA"
  /\ UNCHANGED requests
  /\ inflight[slot].kind = "POST"
  /\ LET c == inflight[slot]
         exists == prismaRoomFound(c.room)
         inflight2 == [inflight EXCEPT ![slot] = Idle]
     IN /\ roomExistenceCache' = roomExistenceCacheSet(c.room, exists, c.now)
        /\ IF ~exists
             THEN /\ MemACommit(presenceCache, arrays, objects, inflight2)
                  /\ lastResp' = Response("POST", 404, NoUser)
             ELSE /\ MemAPush(c.room, c.participants, arrays,
                              PresenceEntry(c.userId, c.peerId, c.timestamp, c.now),
                              inflight2)
                  /\ lastResp' = Response("POST", 200, NoUser)
  /\ UNCHANGED <<rateVars, agentVars, variant, now, roomTable, redisHash, redisExpireAt, presenceCacheB>>

\* The elements a GET that filters the array oids at time t keeps, and the
\* participants array of its body.
MemAGETKept(objs, oids, t) ==
  SelectSeq(oids, LAMBDA o : t - objs[o].timestamp < 120000)
MemAGETBody(objs, oids, t) ==
  simplifiedParticipants(Deref(objs, MemAGETKept(objs, oids, t)))

MemAGETFinish(room, oids, arrays1, inflight2) ==
  /\ MemACommit([presenceCache EXCEPT ![room] = NewRef(arrays1)],
                Append(arrays1, MemAGETKept(objects, oids, now)), objects, inflight2)
  /\ lastResp' = Response("GET", 200, NoUser)

MemAGET(room, rateOk) ==
  /\ variant = "memA"
  /\ Receive
  /\ LET participants == MemALocal(room)
         arrays1 == MemAArrays(room)
         oids == arrays1[participants]
     IN IF ~rateOk
          THEN /\ lastResp' = Response("GET", 429, NoUser)
               /\ UNCHANGED <<presenceCache, arrays, objects, inflight, roomExistenceCache>>
        ELSE IF Len(oids) = 0 /\ ~roomExistsCached(room, now)
          THEN \* roomExists awaits the database
               /\ FreeSlots # {}
               /\ MemACommit(presenceCache, arrays1, objects,
                    [inflight EXCEPT ![FirstFreeSlot] =
                       Continuation("GET", room, NoUser, "-", 0, participants, <<>>, now)])
               /\ UNCHANGED <<lastResp, roomExistenceCache>>
        ELSE IF Len(oids) = 0 /\ ~roomExistenceCache[room].exists
          THEN /\ lastResp' = Response("GET", 404, NoUser)
               /\ UNCHANGED <<presenceCache, arrays, objects, inflight, roomExistenceCache>>
        ELSE /\ MemAGETFinish(room, oids, arrays1, inflight)
             /\ UNCHANGED roomExistenceCache
  /\ UNCHANGED <<agentVars, variant, now, roomTable, redisHash, redisExpireAt, presenceCacheB>>

\* The database answered the roomExists of a suspended GET: the handler
\* filters the array it read before the await.
MemAGETResume(slot) ==
  /\ variant = "memA"
  /\ UNCHANGED requests
  /\ inflight[slot].kind = "GET"
  /\ LET c == inflight[slot]
         exists == prismaRoomFound(c.room)
         inflight2 == [inflight EXCEPT ![slot] = Idle]
     IN /\ roomExistenceCache' = roomExistenceCacheSet(c.room, exists, c.now)
        /\ IF ~exists
             THEN /\ MemACommit(presenceCache, arrays, objects, inflight2)
                  /\ lastResp' = Response("GET", 404, NoUser)
             ELSE MemAGETFinish(c.room, arrays[c.participants], arrays, inflight2)
  /\ UNCHANGED <<rateVars, agentVars, variant, now, roomTable, redisHash, redisExpireAt, presenceCacheB>>

MemADELETE(room, userId) ==
  /\ variant = "memA"
  /\ Receive
  /\ LET participants == MemALocal(room)
         arrays1 == MemAArrays(room)
         kept == MemAWithoutUser(objects, arrays1[participants], userId)
     IN MemACommit([presenceCache EXCEPT ![room] = NewRef(arrays1)],
                   Append(arrays1, kept), objects, inflight)
  /\ lastResp' = Response("DELETE", 200, NoUser)
  /\ UNCHANGED <<rateVars, agentVars, variant, now, roomTable, redisHash, redisExpireAt, presenceCacheB,
                 roomExistenceCache>>

(***************************************************************************)
(* memB: src/unnamed/part_000.                                             *)
(***************************************************************************)
\* GET: the stale filter, then the duplicate filter.
MemBFilter(participants, t) ==
  LET fresh == SelectSeq(participants, LAMBDA p : t - p.timestamp < 120000)
      first == {index \in 1..Len(fresh) : index = findIndex(fresh, fresh[index].userId)}
      order == SetToSortedSeq(first)
  IN [k \in 1..Len(order) |-> fresh[order[k]]]

\* The participants array of the body of a GET that filters at time t.
MemBGETBody(participants, t) == simplifiedParticipants(MemBFilter(participants, t))

MemBGETFinish(room, participants, inflight2) ==
  LET kept == MemBFilter(participants, now)
  IN /\ presenceCacheB' = [presenceCacheB EXCEPT ![room] = kept]
     /\ inflight' = inflight2
     /\ lastResp' = Response("GET", 200, NoUser)

MemBGET(room, rateOk) ==
  /\ variant = "memB"
  /\ Receive
  /\ LET participants == presenceCacheB[room]
     IN IF ~rateOk
          THEN /\ lastResp' = Response("GET", 429, NoUser)
               /\ UNCHANGED <<presenceCacheB, roomExistenceCache, inflight>>
        ELSE IF Len(participants) = 0 /\ ~roomExistsCached(room, now)
          THEN \* roomExists awaits the database
               /\ FreeSlots # {}
               /\ inflight' = [inflight EXCEPT ![FirstFreeSlot] =
                    Continuation("GET", room, NoUser, "-", 0, NoRef, participants, now)]
               /\ UNCHANGED <<presenceCacheB, roomExistenceCache, lastResp>>
        ELSE IF Len(participants) = 0 /\ ~roomExistenceCache[room].exists
          THEN /\ lastResp' = Response("GET", 404, NoUser)
               /\ UNCHANGED <<presenceCacheB, roomExistenceCache, inflight>>
        ELSE /\ MemBGETFinish(room, participants, inflight)
             /\ UNCHANGED roomExistenceCache
  /\ UNCHANGED <<agentVars, variant, now, roomTable, redisHash, redisExpireAt,
                 presenceCache, arrays, objects>>

\* The database answered: roomExists caches and returns, the handler goes on.
MemBGETResume(slot) ==
  /\ variant = "memB"
  /\ inflight[slot].kind = "GET"
  /\ LET c == inflight[slot]
         exists == prismaRoomFound(c.room)
         inflight2 == [inflight EXCEPT ![slot] = Idle]
     IN /\ roomExistenceCache' = roomExistenceCacheSet(c.room, exists, c.now)
        /\ IF ~exists
             THEN /\ lastResp' = Response("GET", 404, NoUser)
                  /\ inflight' = inflight2
                  /\ UNCHANGED presenceCacheB
             ELSE MemBGETFinish(c.room, c.snapshot, inflight2)
  /\ UNCHANGED <<rateVars, agentVars, variant, now, roomTable, redisHash, redisExpireAt,
                 presenceCache, arrays, objects, requests>>

MemBPOST(room, userId, peerId, timestamp, rateOk) ==
  /\ variant = "memB"
  /\ Receive
  /\ IF ~rateOk
       THEN /\ lastResp' = Response("POST", 429, NoUser)
            /\ UNCHANGED presenceCacheB
       ELSE LET others == SelectSeq(presenceCacheB[room], LAMBDA p : p.userId # userId)
                pushed == Append(others, PresenceEntry(userId, peerId, timestamp, now))
            IN /\ presenceCacheB' = [presenceCacheB EXCEPT ![room] = pushed]
               /\ lastResp' = Response("POST", 200, NoUser)
  /\ UNCHANGED <<agentVars, variant, now, roomTable, redisHash, redisExpireAt,
                 presenceCache, arrays, objects, roomExistenceCache, inflight>>

MemBDELETE(room, userId, rateOk) ==
  /\ variant = "memB"
  /\ Receive
  /\ IF ~rateOk
       THEN /\ lastResp' = Response("DELETE", 429, NoUser)
            /\ UNCHANGED presenceCacheB
       ELSE /\ presenceCacheB' = [presenceCacheB EXCEPT ![room] =
                 SelectSeq(@, LAMBDA p : p.userId # userId)]
            /\ lastResp' = Response("DELETE", 200, NoUser)
  /\ UNCHANGED <<agentVars, variant, now, roomTable, redisHash, redisExpireAt,
                 presenceCache, arrays, objects, roomExistenceCache, inflight>>

(***************************************************************************)
(* The clock.                                                              *)
(***************************************************************************)
Tick ==
  /\ now + TickMs <= MaxTicks * TickMs
  /\ now' = now + TickMs
  /\ UNCHANGED <<rateVars, agentVars, variant, roomTable, redisHash, redisExpireAt, memVars, lastResp>>

(***************************************************************************)
(* Specifications.                                                         *)
(***************************************************************************)
\* prisma Room rows: r1 was created at time 0 (expiresAt = 5 days), r10 never.
InitPresence ==
  /\ now = 0
  /\ InitAgentIdle
  /\ redisHash = [r \in Rooms |-> EmptyHash]
  /\ redisExpireAt = [r \in Rooms |-> NoExpire]
  /\ presenceCache = [r \in Rooms |-> NoRef]
  /\ arrays = <<>>
  /\ objects = <<>>
  /\ presenceCacheB = [r \in Rooms |-> <<>>]
  /\ roomExistenceCache = [r \in Rooms |-> NoExistenceEntry]
  /\ inflight = [s \in Slots |-> Idle]
  /\ requests = 0
  /\ rateLimitMap = EmptyHash
  /\ admitted = <<>>
  /\ lastResp = NoResponse

InitCommon ==
  /\ InitPresence
  /\ roomTable = <<RoomRow("r1", addDays(0, LIFETIME_DAYS), TRUE)>>

InitRedis == variant = "redis" /\ InitCommon
InitMemA == variant = "memA" /\ InitCommon
InitMemB == variant = "memB" /\ InitCommon

NextRedis ==
  \/ Tick
  \/ \E room \in Rooms : RedisGET(room)
  \/ \E room \in Rooms, peerId \in Peers, timestamp \in ClientTimestamps(now) :
       \E userId \in Members(room) \cup {NoUser} :
         RedisPOST(room, userId, peerId, timestamp)
  \/ \E room \in Rooms : \E userId \in Members(room) : RedisDELETE(room, userId)

NextMemB ==
  \/ Tick
  \/ \E room \in Rooms, rateOk \in BOOLEAN :
       MemBGET(room, rateOk) /\ UNCHANGED rateVars
  \/ \E slot \in Slots : MemBGETResume(slot)
  \/ \E room \in Rooms, peerId \in Peers, timestamp \in DelayedTimestamps(now) :
       \E userId \in MemMembers(room), rateOk \in BOOLEAN :
         MemBPOST(room, userId, peerId, timestamp, rateOk) /\ UNCHANGED rateVars
  \/ \E room \in Rooms, rateOk \in BOOLEAN :
       \E userId \in MemMembers(room) :
         MemBDELETE(room, userId, rateOk) /\ UNCHANGED rateVars

NextMemA ==
  \/ Tick
  \/ \E room \in Rooms, rateOk \in BOOLEAN :
       MemAGET(room, rateOk) /\ UNCHANGED rateVars
  \/ \E slot \in Slots : MemAGETResume(slot)
  \/ \E room \in Rooms, peerId \in Peers, timestamp \in DelayedTimestamps(now) :
       \E userId \in MemAPosters(room), rateOk \in BOOLEAN :
         MemAPOST(room, userId, peerId, timestamp, rateOk) /\ UNCHANGED rateVars
  \/ \E slot \in Slots : MemAPOSTResume(slot)
  \/ \E room \in Rooms : \E userId \in MemMembers(room) : MemADELETE(room, userId)

SpecRedis == InitRedis /\ [][NextRedis]_vars
SpecMemA == InitMemA /\ [][NextMemA]_vars
SpecMemB == InitMemB /\ [][NextMemB]_vars

\* The redis build and the memB build, either of which may be the one deployed.
InitRedisMemB == variant \in {"redis", "memB"} /\ InitCommon
NextRedisMemB == NextRedis \/ NextMemB
SpecRedisMemB == InitRedisMemB /\ [][NextRedisMemB]_vars

(***************************************************************************)
(* Views of the presence store that the properties use.                    *)
(***************************************************************************)
Range(s) == {s[i] : i \in DOMAIN s}

\* The records a Redis hash holds, stale ones included; as in the GET handler
\* the userId is the field name.
RedisEntries(participants) ==
  LET order == SetToSeq(DOMAIN participants)
  IN [i \in 1..Len(order) |->
        [userId |-> order[i],
         peerId |-> parseParticipantData(participants[order[i]]).peerId,
         timestamp |-> parseParticipantData(participants[order[i]]).timestamp]]

\* memA: the elements of the array the Map holds under a reference.
MemAOids(ref, arrs) == IF ref = NoRef THEN <<>> ELSE arrs[ref]

\* The records the deployed build holds for a room, and list(room), the
\* participants array of a GET answered at time t, in a state given by the
\* values of its variables.
StoredEntriesIn(hash, expireAt, ref, arrs, objs, participantsB, t) ==
  CASE variant = "redis" -> RedisEntries(hgetallOf(hash, expireAt, t))
    [] variant = "memA" -> simplifiedParticipants(Deref(objs, MemAOids(ref, arrs)))
    [] variant = "memB" -> simplifiedParticipants(participantsB)

ListedIn(hash, expireAt, ref, arrs, objs, participantsB, t) ==
  CASE variant = "redis" -> activeParticipants(hgetallOf(hash, expireAt, t), t)
    [] variant = "memA" -> MemAGETBody(objs, MemAOids(ref, arrs), t)
    [] variant = "memB" -> MemBGETBody(participantsB, t)

\* In the current state, and in the state a step leads to.
StoredEntries(room) ==
  StoredEntriesIn(redisHash[room], redisExpireAt[room], presenceCache[room],
                  arrays, objects, presenceCacheB[room], now)

StoredEntriesNext(room) ==
  StoredEntriesIn(redisHash'[room], redisExpireAt'[room], presenceCache'[room],
                  arrays', objects', presenceCacheB'[room], now')

Listed(room) ==
  ListedIn(redisHash[room], redisExpireAt[room], presenceCache[room],
           arrays, objects, presenceCacheB[room], now)

ListedNext(room) ==
  ListedIn(redisHash'[room], redisExpireAt'[room], presenceCache'[room],
           arrays', objects', presenceCacheB'[room], now')

RecordsOf(entries, userId) == SelectSeq(entries, LAMBDA p : p.userId = userId)

Pairs(entries) == {<<p.userId, p.peerId>> : p \in Range(entries)}

Record(userId, peerId, timestamp) ==
  [userId |-> userId, peerId |-> peerId, timestamp |-> timestamp]

\* This step answers the announce (room, userId, peerId, timestamp) with
\* success.  In memA the answer is given at once or when the suspended
\* handler resumes.
AnnounceSucceeds(room, userId, peerId, timestamp) ==
  /\ lastResp'.op = "POST"
  /\ lastResp'.status = 200
  /\ CASE variant = "redis" ->
             /\ lastResp'.userId = userId
             /\ RedisPOST(room, userId, peerId, timestamp)
        [] variant = "memB" -> MemBPOST(room, userId, peerId, timestamp, TRUE)
        [] variant = "memA" ->
             \/ /\ {s \in Slots : inflight'[s].kind = "idle"} = FreeSlots
                /\ MemAPOST(room, userId, peerId, timestamp, TRUE)
             \/ \E slot \in Slots :
                  /\ inflight[slot].kind = "POST"
                  /\ inflight[slot].room = room
                  /\ inflight[slot].userId = userId
                  /\ inflight[slot].peerId = peerId
                  /\ inflight[slot].timestamp = timestamp
                  /\ MemAPOSTResume(slot)

\* This step answers removePresence(room, userId) with success.
RemoveSucceeds(room, userId) ==
  /\ lastResp'.op = "DELETE"
  /\ lastResp'.status = 200
  /\ CASE variant = "redis" -> RedisDELETE(room, userId)
        [] variant = "memB" -> MemBDELETE(room, userId, TRUE)
        [] variant = "memA" -> MemADELETE(room, userId)

\* The validate route's verdict on a room at time t.
RoomUsable(room, t) ==
  /\ findUnique(roomTable, room) # NoRow
  /\ ~(t > findUnique(roomTable, room).expiresAt)
  /\ findUnique(roomTable, room).active

(***************************************************************************)
(* Properties.                                                             *)
(***************************************************************************)
\* C1: a room never holds more than one presence record for a participant.
C1_OneRecordPerParticipant ==
  \A room \in Rooms, userId \in Users :
    Len(RecordsOf(StoredEntries(room), userId)) <= 1

\* C2: an announce with a later timestamp than the participant's record
\* leaves exactly one record of the participant in the list, and that record
\* carries the endpoint and the timestamp of this announce.
C2_SecondAnnounceReplacesEndpoint ==
  [][\A room \in Rooms, userId \in Users, peerId \in Peers, timestamp \in ClientTimestamps(now) :
       (/\ \E p \in Range(RecordsOf(StoredEntries(room), userId)) :
             p.timestamp < timestamp
        /\ AnnounceSucceeds(room, userId, peerId, timestamp))
       => RecordsOf(ListedNext(room), userId) = <<Record(userId, peerId, timestamp)>>]_vars

\* C3: an announce that carries an older timestamp than the participant's
\* stored record does not change that record: the later timestamp wins, in
\* whatever order the announces are processed.
C3_LastTimestampWins ==
  [][\A room \in Rooms, userId \in Users, peerId \in Peers, timestamp \in ClientTimestamps(now) :
       (/\ \E p \in Range(RecordsOf(StoredEntries(room), userId)) :
             p.timestamp > timestamp
        /\ AnnounceSucceeds(room, userId, peerId, timestamp))
       => RecordsOf(StoredEntriesNext(room), userId) =
            RecordsOf(StoredEntries(room), userId)]_vars

\* C4: every record a list returns is younger than PRESENCE_TIMEOUT: none has
\* now - timestamp >= PRESENCE_TIMEOUT.
C4_ListOmitsStale ==
  \A room \in Rooms :
    \A i \in DOMAIN Listed(room) :
      ~(now - Listed(room)[i].timestamp >= PRESENCE_TIMEOUT)

\* C4's case: a list was answered while a stored record was PRESENCE_TIMEOUT
\* old or older, and the list leaves it out.
C4_StaleRecordLeftOut ==
  /\ lastResp = Response("GET", 200, NoUser)
  /\ \E room \in Rooms :
       /\ \E p \in Range(StoredEntries(room)) : now - p.timestamp >= PRESENCE_TIMEOUT
       /\ Len(Listed(room)) < Len(StoredEntries(room))

\* C5: a participant whose last announce is more than PRESENCE_TIMEOUT old and
\* who was never removed (the record is still stored) is not in the list.
C5_SilentParticipantOmitted ==
  \A room \in Rooms, userId \in Users :
    (\E p \in Range(RecordsOf(StoredEntries(room), userId)) :
       now - p.timestamp > PRESENCE_TIMEOUT)
    => RecordsOf(Listed(room), userId) = <<>>

\* C5's case: a list was answered while the record of u1, announced more than
\* PRESENCE_TIMEOUT ago and never removed, is still stored.
C5_SilentRecordStillStored ==
  /\ lastResp = Response("GET", 200, NoUser)
  /\ \E p \in Range(RecordsOf(StoredEntries("r1"), "u1")) :
       now - p.timestamp > PRESENCE_TIMEOUT

\* C6: an announce or a remove of participant p in a room changes no record
\* of another participant and no record of another room.
C6_WritesAreLocal ==
  [][\A room \in Rooms, userId \in Users :
       (\/ RemoveSucceeds(room, userId)
        \/ \E peerId \in Peers, timestamp \in ClientTimestamps(now) :
             AnnounceSucceeds(room, userId, peerId, timestamp))
       => \A room2 \in Rooms, q \in Users :
            (<<room2, q>> # <<room, userId>>)
            => RecordsOf(StoredEntriesNext(room2), q) = RecordsOf(StoredEntries(room2), q)]_vars

\* C7: right after an announce with a live timestamp succeeds, the list holds
\* the announced participant exactly once.
C7_AnnouncedListedOnce ==
  [][\A room \in Rooms, userId \in Users, peerId \in Peers, timestamp \in ClientTimestamps(now) :
       (/\ AnnounceSucceeds(room, userId, peerId, timestamp)
        /\ now - timestamp < PRESENCE_TIMEOUT)
       => Len(RecordsOf(ListedNext(room), userId)) = 1]_vars

\* C8: the list shows every live participant with its endpoint: an announce
\* adds the announcer with the announced endpoint and keeps everyone else, a
\* remove takes out the removed participant and keeps everyone else.
C8_ListShowsEveryoneUntilRemoved ==
  [][\A room \in Rooms, userId \in Users :
       /\ \A peerId \in Peers, timestamp \in ClientTimestamps(now) :
            (/\ AnnounceSucceeds(room, userId, peerId, timestamp)
             /\ now - timestamp < PRESENCE_TIMEOUT)
            => Pairs(ListedNext(room)) =
                 {pr \in Pairs(Listed(room)) : pr[1] # userId} \cup {<<userId, peerId>>}
       /\ RemoveSucceeds(room, userId)
            => Pairs(ListedNext(room)) = {pr \in Pairs(Listed(room)) : pr[1] # userId}]_vars

\* C8's case: u1 and u2 were in r1, a remove was answered, and the list of r1
\* is exactly u2 with its endpoint.
C8_OnlyTheOtherListed ==
  /\ variant = "redis"
  /\ lastResp = Response("DELETE", 200, NoUser)
  /\ Pairs(Listed("r1")) = {<<"u2", "peerB">>}

\* C9: a remove is answered with success, leaves no record of the
\* participant, and, when the participant had no record (as in a second
\* remove), leaves the store as it was.
C9_RemoveIsIdempotent ==
  [][\A room \in Rooms, userId \in Users :
       RemoveSucceeds(room, userId)
       => /\ lastResp' = Response("DELETE", 200, NoUser)
          /\ RecordsOf(StoredEntriesNext(room), userId) = <<>>
          /\ (RecordsOf(StoredEntries(room), userId) = <<>>
              => \A r \in Rooms : StoredEntriesNext(r) = StoredEntries(r))]_vars

\* C9's case: a remove was answered with success, u1 has no record in r1 and
\* the record of u2 is still there.
C9_RemovedAndOthersKept ==
  /\ lastResp = Response("DELETE", 200, NoUser)
  /\ RecordsOf(StoredEntries("r1"), "u1") = <<>>
  /\ RecordsOf(StoredEntries("r1"), "u2") # <<>>

\* C10: a participant gets a first record in a room only if the room is
\* usable (it exists, is not expired and is active).
C10_NoPresenceInUnusableRoom ==
  [][\A room \in Rooms, userId \in Users :
       (/\ RecordsOf(StoredEntries(room), userId) = <<>>
        /\ RecordsOf(StoredEntriesNext(room), userId) # <<>>)
       => RoomUsable(room, now)]_vars


(***************************************************************************)
(* The room registry: src/app/api/rooms/route.ts (createRoom, getRoom),    *)
(* the validate endpoint and the room page's validateRoom.                 *)
(***************************************************************************)
\* Expiry times of the rooms that exist at the start: two that the clock
\* reaches, and that of a room created at time 0.
Expiries == {TickMs, 2 * TickMs, addDays(0, LIFETIME_DAYS)}

RoomResponse(op, status, roomId, valid, reason) ==
  [op |-> op, status |-> status, userId |-> NoUser, roomId |-> roomId,
   valid |-> valid, reason |-> reason]

\* The index that `roomId String @unique` puts on the collection, without
\* any check: every insert is accepted.
NoUniqueIndex(table, roomId) == FALSE

\* The index that `roomId String @unique` puts on the collection: an insert
\* of a roomId that is already there is rejected.
UniqueViolation(table, roomId) ==
  \E i \in 1..Len(table) : table[i].roomId = roomId

\* The row that createRoom writes, with an expiry of the creation time.
NewRoomRowNoLifetime(roomId, t) == RoomRow(roomId, t, TRUE)

\* The row that createRoom writes: {roomId, expiresAt: addDays(new Date(), 5),
\* active: true}.
NewRoomRow(roomId, t) == RoomRow(roomId, addDays(t, LIFETIME_DAYS), TRUE)

\* POST /api/rooms.  roomId is uuidv4().substring(0, 8), any id; writeOk says
\* whether the database accepts the write.  prisma.room.create throws on a
\* database failure and on a unique violation, and the catch answers 500.
createRoom(roomId, writeOk) ==
  /\ IF writeOk /\ ~UniqueViolation(roomTable, roomId)
     THEN /\ roomTable' = Append(roomTable, NewRoomRow(roomId, now))
          /\ lastResp' = RoomResponse("createRoom", 200, roomId, TRUE, "")
     ELSE /\ roomTable' = roomTable
          /\ lastResp' = RoomResponse("createRoom", 500, "-", FALSE,
                                      "Failed to create room")
  /\ UNCHANGED <<rateVars, agentVars, variant, now, redisHash, redisExpireAt, memVars>>

\* GET /api/rooms?roomId=...: the status of the answer.
getRoomStatus(table, roomId, t) ==
  LET room == findUnique(table, roomId)
  IN IF room = NoRow THEN 404
     ELSE IF t > room.expiresAt \/ ~room.active THEN 410
     ELSE 200

getRoom(roomId) ==
  /\ lastResp' = RoomResponse("getRoom", getRoomStatus(roomTable, roomId, now),
                              roomId, getRoomStatus(roomTable, roomId, now) = 200,
                              "")
  /\ UNCHANGED <<rateVars, agentVars, variant, now, roomTable, redisHash, redisExpireAt,
                 memVars>>

\* GET /api/rooms/validate?roomId=...: the reason of the answer ("" when the
\* answer is valid: true).
validateReason(table, roomId, t) ==
  LET room == findUnique(table, roomId)
  IN IF room = NoRow THEN "not_found"
     ELSE IF t > room.expiresAt THEN "expired"
     ELSE IF ~room.active THEN "inactive"
     ELSE ""

validate(roomId) ==
  /\ lastResp' = RoomResponse("validate", 200, roomId,
                              validateReason(roomTable, roomId, now) = "",
                              validateReason(roomTable, roomId, now))
  /\ UNCHANGED <<rateVars, agentVars, variant, now, roomTable, redisHash, redisExpireAt,
                 memVars>>

\* validateRoom of the room page: the reason of the result ("" when valid).
validateRoomReason(table, roomId, t) ==
  LET room == findUnique(table, roomId)
  IN IF room = NoRow THEN "not_found"
     ELSE IF t > room.expiresAt THEN "expired"
     ELSE IF ~room.active THEN "inactive"
     ELSE ""

validateRoom(roomId) ==
  /\ lastResp' = RoomResponse("validateRoom", 200, roomId,
                              validateRoomReason(roomTable, roomId, now) = "",
                              validateRoomReason(roomTable, roomId, now))
  /\ UNCHANGED <<rateVars, agentVars, variant, now, roomTable, redisHash, redisExpireAt,
                 memVars>>

\* The registry at the start: empty, or one room r1 of any expiry and flag.
RegistryStates ==
  {<<>>} \cup {<<RoomRow("r1", e, a)>> : e \in Expiries, a \in BOOLEAN}

InitRegistry ==
  /\ variant = "redis"
  /\ InitPresence
  /\ roomTable \in RegistryStates

NextRegistry ==
  \/ Tick
  \/ \E roomId \in Rooms, writeOk \in BOOLEAN : createRoom(roomId, writeOk)
  \/ \E roomId \in Rooms : getRoom(roomId)
  \/ \E roomId \in Rooms : validate(roomId)
  \/ \E roomId \in Rooms : validateRoom(roomId)

SpecRegistry == InitRegistry /\ [][NextRegistry]_vars

\* C11: a validation made at a time exactly equal to the room's expiresAt
\* reports the room as expired, by the validate endpoint and by the room
\* page's validateRoom alike (a room is valid only while now < expiresAt).
C11_ExpiredAtTheBoundary ==
  [][\A roomId \in Rooms :
       /\ validate(roomId) \/ validateRoom(roomId)
       /\ findUnique(roomTable, roomId) # NoRow
       /\ findUnique(roomTable, roomId).expiresAt = now
       => /\ ~lastResp'.valid
          /\ lastResp'.reason = "expired"]_vars

\* The usability predicate: the room exists, now < expiresAt, and it is active.
Usable(table, roomId, t) ==
  /\ findUnique(table, roomId) # NoRow
  /\ t < findUnique(table, roomId).expiresAt
  /\ findUnique(table, roomId).active

\* C12: in every registry state and at every time, getRoom succeeds iff the
\* validate endpoint answers valid: true iff the room page's validateRoom
\* answers valid: true iff the room exists, now < expiresAt and it is active.
C12_ChecksAgreeWithUsable ==
  \A roomId \in Rooms :
    /\ (getRoomStatus(roomTable, roomId, now) = 200)
         <=> (validateReason(roomTable, roomId, now) = "")
    /\ (validateReason(roomTable, roomId, now) = "")
         <=> (validateRoomReason(roomTable, roomId, now) = "")
    /\ (validateRoomReason(roomTable, roomId, now) = "")
         <=> Usable(roomTable, roomId, now)

\* C19: a createRoom that succeeds adds exactly one room, active and with
\* expiresAt = creation time + 5 days, under the id it returns, and that room
\* is usable at once; a createRoom whose write fails answers an error and
\* leaves the registry as it was (one attempt, no retry).
C19_CreateRoomPersistsOrFails ==
  [][\A roomId \in Rooms, writeOk \in BOOLEAN :
       createRoom(roomId, writeOk) =>
         /\ ~writeOk => lastResp'.status = 500
         /\ IF lastResp'.status = 200
            THEN /\ Len(roomTable') = Len(roomTable) + 1
                 /\ SubSeq(roomTable', 1, Len(roomTable)) = roomTable
                 /\ roomTable'[Len(roomTable')] =
                      RoomRow(lastResp'.roomId,
                              now + LIFETIME_DAYS * 24 * 60 * 60 * 1000, TRUE)
                 /\ Usable(roomTable', lastResp'.roomId, now)
                 /\ getRoomStatus(roomTable', lastResp'.roomId, now) = 200
                 /\ validateReason(roomTable', lastResp'.roomId, now) = ""
                 /\ validateRoomReason(roomTable', lastResp'.roomId, now) = ""
            ELSE roomTable' = roomTable]_vars

\* A room was created next to one that existed before, and is in the registry.
C19_RoomCreated ==
  /\ lastResp.op = "createRoom"
  /\ lastResp.status = 200
  /\ Len(roomTable) = 2
  /\ roomTable[2].roomId = lastResp.roomId

\* C20: the registry never holds two rooms with the same id, rooms are never
\* taken out of it, and a createRoom answers success only with an id that no
\* room had before: no two successful createRoom calls return the same id,
\* and a colliding id is not returned as success.
C20_RoomIdsAreUnique ==
  /\ [](\A i, j \in 1..Len(roomTable) :
          i # j => roomTable[i].roomId # roomTable[j].roomId)
  /\ [][/\ Len(roomTable') >= Len(roomTable)
        /\ SubSeq(roomTable', 1, Len(roomTable)) = roomTable
        /\ \A roomId \in Rooms, writeOk \in BOOLEAN :
             createRoom(roomId, writeOk) /\ lastResp'.status = 200 =>
               /\ lastResp'.roomId = roomId
               /\ \A i \in 1..Len(roomTable) : roomTable[i].roomId # roomId]_vars

\* Every id is taken and the last createRoom, which collided, was refused.
C20_CollisionRefused ==
  /\ lastResp.op = "createRoom"
  /\ lastResp.status = 500
  /\ {roomTable[i].roomId : i \in 1..Len(roomTable)} = Rooms

(***************************************************************************)
(* The rate limiter of the in-process builds: checkRateLimit of            *)
(* src/unnamed/part_000 (room-service.ts has the same function), composed  *)
(* with the handlers of part_000.  Keys are strings; the model keeps them  *)
(* as sequences of characters so that startsWith is computed as the code   *)
(* computes it.                                                            *)
(***************************************************************************)
MaxMillis == 1

RATE_LIMIT_WINDOW == 60000
MAX_REQUESTS_PER_WINDOW == 120

\* request.headers.get("x-forwarded-for") || "unknown"
Clients == {"c1", "c2"}

\* The characters of the strings that occur in keys.
Chars(word) ==
  CASE word = "get" -> <<"g", "e", "t">>
    [] word = "post" -> <<"p", "o", "s", "t">>
    [] word = "c1" -> <<"c", "1">>
    [] word = "c2" -> <<"c", "2">>
    [] word = "r1" -> <<"r", "1">>
    [] word = "r10" -> <<"r", "1", "0">>
    [] word = "u1" -> <<"u", "1">>
    [] word = "u2" -> <<"u", "2">>

Digit(d) ==
  CASE d = 0 -> "0" [] d = 1 -> "1" [] d = 2 -> "2" [] d = 3 -> "3" [] d = 4 -> "4"
    [] d = 5 -> "5" [] d = 6 -> "6" [] d = 7 -> "7" [] d = 8 -> "8" [] d = 9 -> "9"

\* `${now}`: the decimal digits of a number.
RECURSIVE NumberToString(_)
NumberToString(n) ==
  IF n < 10 THEN <<Digit(n)>>
  ELSE Append(NumberToString(n \div 10), Digit(n % 10))

\* `get:${clientIp}:${roomId}`; POST appends `:${validatedData.userId}`.
rateKey(op, client, room, userId) ==
  LET base == Chars(op) \o <<":">> \o Chars(client) \o <<":">> \o Chars(room)
  IN IF op = "get" THEN base ELSE base \o <<":">> \o Chars(userId)

\* `${key}:${now}`
requestKey(key, t) == key \o <<":">> \o NumberToString(t)

\* String.prototype.startsWith
startsWith(string, prefix) ==
  /\ Len(prefix) <= Len(string)
  /\ SubSeq(string, 1, Len(prefix)) = prefix

\* checkRateLimit, first loop: entries older than the window are deleted.
rateLimitCleanup(map, t) ==
  [entryKey \in {k \in DOMAIN map : ~(t - map[k] > RATE_LIMIT_WINDOW)} |-> map[entryKey]]

\* checkRateLimit, second loop: the count for a key.
rateLimitCount(map, key, t) ==
  Cardinality({entryKey \in DOMAIN rateLimitCleanup(map, t) :
                 /\ startsWith(entryKey, key)
                 /\ t - map[entryKey] <= RATE_LIMIT_WINDOW})

\* checkRateLimit: the value returned.
checkRateLimit(map, key, t) ==
  ~(rateLimitCount(map, key, t) >= MAX_REQUESTS_PER_WINDOW)

\* checkRateLimit: rateLimitMap when it returns.
rateLimitMapAfter(map, key, t) ==
  LET cleaned == rateLimitCleanup(map, t)
  IN IF checkRateLimit(map, key, t)
       THEN [entryKey \in DOMAIN cleaned \cup {requestKey(key, t)} |->
               IF entryKey = requestKey(key, t) THEN t ELSE cleaned[entryKey]]
       ELSE cleaned

\* The (operation, client, room) tuples of requests.
Ops == {"get", "post"}
Tuples == Ops \X Clients \X Rooms

\* checkRateLimit called by a handler of operation op for (client, room).
Limited(op, client, room, userId) ==
  LET key == rateKey(op, client, room, userId)
  IN /\ rateLimitMap' = rateLimitMapAfter(rateLimitMap, key, now)
     /\ admitted' = IF checkRateLimit(rateLimitMap, key, now)
                      THEN [admitted EXCEPT ![<<op, client, room>>] = Append(@, now)]
                      ELSE admitted

RateGET(client, room) ==
  /\ Limited("get", client, room, NoUser)
  /\ MemBGET(room, checkRateLimit(rateLimitMap, rateKey("get", client, room, NoUser), now))

RatePOST(client, room, userId, peerId, timestamp) ==
  /\ Limited("post", client, room, userId)
  /\ MemBPOST(room, userId, peerId, timestamp,
              checkRateLimit(rateLimitMap, rateKey("post", client, room, userId), now))

\* One millisecond passes.
PreloadCount == MAX_REQUESTS_PER_WINDOW - 2

Millisecond ==
  /\ (now - (PreloadCount + 1)) % TickMs < MaxMillis
  /\ now' = now + 1
  /\ UNCHANGED <<rateVars, agentVars, variant, roomTable, redisHash, redisExpireAt, memVars, lastResp>>

\* The state after client c1 has listed a room PreloadCount times, once in
\* each of the milliseconds 1..PreloadCount, and the clock has moved on by one.
InitRateLimit ==
  /\ variant = "memB"
  /\ InitAgentIdle
  /\ now = PreloadCount + 1
  /\ roomTable = <<RoomRow("r1", addDays(0, LIFETIME_DAYS), TRUE)>>
  /\ redisHash = [r \in Rooms |-> EmptyHash]
  /\ redisExpireAt = [r \in Rooms |-> NoExpire]
  /\ presenceCache = [r \in Rooms |-> NoRef]
  /\ arrays = <<>>
  /\ objects = <<>>
  /\ presenceCacheB = [r \in Rooms |-> <<>>]
  /\ inflight = [s \in Slots |-> Idle]
  /\ requests = 0
  /\ \E room \in Rooms :
       /\ roomExistenceCache =
            [r \in Rooms |-> IF r = room
                               THEN ExistenceEntry(TRUE, r = "r1", 1 + CACHE_TTL)
                               ELSE NoExistenceEntry]
       /\ rateLimitMap =
            [entryKey \in {requestKey(rateKey("get", "c1", room, NoUser), t) :
                             t \in 1..PreloadCount} |->
               CHOOSE t \in 1..PreloadCount :
                 entryKey = requestKey(rateKey("get", "c1", room, NoUser), t)]
       /\ admitted = [tuple \in Tuples |->
                        IF tuple = <<"get", "c1", room>>
                          THEN [i \in 1..PreloadCount |-> i]
                          ELSE <<>>]
       /\ lastResp = Response("GET", IF room = "r1" THEN 200 ELSE 404, NoUser)

NextRateLimit ==
  \/ Tick
  \/ Millisecond
  \/ \E client \in Clients, room \in Rooms : RateGET(client, room)
  \/ \E slot \in Slots : MemBGETResume(slot)
  \/ \E userId \in {"u1"}, peerId \in {"peerA"} :
       RatePOST("c1", "r1", userId, peerId, now)

SpecRateLimit == InitRateLimit /\ [][NextRateLimit]_vars

\* A request of operation op from client for room passes through the limiter
\* and its handler.
RateRequest(op, client, room) ==
  \/ op = "get" /\ RateGET(client, room)
  \/ op = "post" /\ \E userId \in Users, peerId \in Peers :
                      RatePOST(client, room, userId, peerId, now)

\* The number of requests of (op, client, room) let through in the window
\* that ends at time t.
AdmittedInWindow(op, client, room, t) ==
  Cardinality({i \in 1..Len(admitted[<<op, client, room>>]) :
                 t - admitted[<<op, client, room>>][i] < RATE_LIMIT_WINDOW})

\* C13: of the requests with one (operation, client, room) key in one window,
\* the one that follows MAX_REQUESTS_PER_WINDOW - 1 admitted ones is admitted,
\* and one that follows MAX_REQUESTS_PER_WINDOW admitted ones is refused with
\* status 429, however the requests are spaced; a refused request leaves the
\* presence store as it was.
C13_LimitPerWindow ==
  [][\A op \in Ops, client \in Clients, room \in Rooms :
       RateRequest(op, client, room) =>
         /\ AdmittedInWindow(op, client, room, now) = MAX_REQUESTS_PER_WINDOW - 1
              => admitted' # admitted
         /\ AdmittedInWindow(op, client, room, now) >= MAX_REQUESTS_PER_WINDOW
              => admitted' = admitted
         /\ admitted' = admitted
              => /\ lastResp'.status = 429
                 /\ presenceCacheB' = presenceCacheB]_vars

\* C14: a request is refused only on account of admitted requests of its own
\* (operation, client, room): while fewer than MAX_REQUESTS_PER_WINDOW of them
\* lie in the window it is admitted, whatever other clients, operations and
\* rooms (such as a room whose id starts with this room's id) have sent.
C14_AccountingPerTuple ==
  [][\A op \in Ops, client \in Clients, room \in Rooms :
       RateRequest(op, client, room)
         /\ AdmittedInWindow(op, client, room, now) < MAX_REQUESTS_PER_WINDOW
       => admitted' # admitted]_vars

(***************************************************************************)
(* Request bodies and their validation (zod schemas) in route.ts and       *)
(* room-service.ts.  A field of a parsed JSON body is a string, a number,  *)
(* or is missing.                                                          *)
(***************************************************************************)
Str(s) == [type |-> "string", str |-> s, num |-> 0]
Num(n) == [type |-> "number", str |-> "", num |-> n]
Undefined == [type |-> "undefined", str |-> "", num |-> 0]

\* The bodies of the POST requests sent at time t, well-formed and not.
PostBodies(t) ==
  {[roomId |-> r, userId |-> u, peerId |-> p, timestamp |-> ts] :
     r \in {Str("r1"), Num(7), Undefined},
     u \in {Str("u1"), Str(""), Num(7), Undefined},
     p \in {Str("peerA"), Num(7), Undefined},
     ts \in {Num(t), Str("soon"), Undefined}}

\* The bodies of the DELETE requests.
DeleteBodies ==
  {[roomId |-> r, userId |-> u] :
     r \in {Str("r1"), Num(7), Undefined},
     u \in {Str("u1"), Num(7), Undefined}}

\* route.ts: presenceSchema.parse succeeds (userId is optional).
presenceSchema(body) ==
  /\ body.roomId.type = "string"
  /\ body.userId.type \in {"string", "undefined"}
  /\ body.peerId.type = "string"
  /\ body.timestamp.type = "number"

\* room-service.ts: presenceSchema.parse succeeds (userId is required).
presenceSchemaA(body) ==
  /\ body.roomId.type = "string"
  /\ body.userId.type = "string"
  /\ body.peerId.type = "string"
  /\ body.timestamp.type = "number"

\* deletePresenceSchema.parse succeeds (the same schema in both files).
deletePresenceSchema(body) ==
  /\ body.roomId.type = "string"
  /\ body.userId.type = "string"

\* `validatedData.userId || uuidv4()` takes the left side unless it is falsy:
\* undefined or the empty string.
Falsy(value) == value.type = "undefined" \/ (value.type = "string" /\ value.str = "")

\* route.ts POST on a request body: a ZodError is answered with 400.
RedisPOSTRequest(body) ==
  IF presenceSchema(body)
    THEN RedisPOST(body.roomId.str,
                   IF Falsy(body.userId) THEN NoUser ELSE body.userId.str,
                   body.peerId.str, body.timestamp.num)
    ELSE /\ variant = "redis"
         /\ lastResp' = Response("POST", 400, NoUser)
         /\ UNCHANGED <<rateVars, agentVars, variant, now, roomTable, redisHash, redisExpireAt,
                        memVars>>

\* route.ts DELETE on a request body: a ZodError is answered with 400.
RedisDELETERequest(body) ==
  IF deletePresenceSchema(body)
    THEN RedisDELETE(body.roomId.str, body.userId.str)
    ELSE /\ variant = "redis"
         /\ lastResp' = Response("DELETE", 400, NoUser)
         /\ UNCHANGED <<rateVars, agentVars, variant, now, roomTable, redisHash, redisExpireAt,
                        memVars>>

\* room-service.ts POST on a request body: the catch answers every error,
\* a ZodError included, with 500.
MemAPOSTRequest(body, rateOk) ==
  IF presenceSchemaA(body)
    THEN /\ MemAPOST(body.roomId.str, body.userId.str, body.peerId.str,
                     body.timestamp.num, rateOk)
         /\ UNCHANGED rateVars
    ELSE /\ variant = "memA"
         /\ Receive
         /\ lastResp' = Response("POST", 500, NoUser)
         /\ UNCHANGED <<rateVars, agentVars, variant, now, roomTable, redisHash, redisExpireAt,
                        presenceCache, arrays, objects, presenceCacheB,
                        roomExistenceCache, inflight>>

\* room-service.ts DELETE on a request body: every error is answered with 500.
MemADELETERequest(body) ==
  IF deletePresenceSchema(body)
    THEN MemADELETE(body.roomId.str, body.userId.str)
    ELSE /\ variant = "memA"
         /\ Receive
         /\ lastResp' = Response("DELETE", 500, NoUser)
         /\ UNCHANGED <<rateVars, agentVars, variant, now, roomTable, redisHash, redisExpireAt,
                        presenceCache, arrays, objects, presenceCacheB,
                        roomExistenceCache, inflight>>

InitPayload == variant \in {"redis", "memA"} /\ InitCommon

NextPayload ==
  \/ Tick
  \/ \E body \in PostBodies(now) : RedisPOSTRequest(body)
  \/ \E body \in DeleteBodies : RedisDELETERequest(body)
  \/ \E body \in PostBodies(now), rateOk \in BOOLEAN : MemAPOSTRequest(body, rateOk)
  \/ \E slot \in Slots : MemAPOSTResume(slot)
  \/ \E body \in DeleteBodies : MemADELETERequest(body)

SpecPayload == InitPayload /\ [][NextPayload]_vars

\* A payload in which roomId, peerId, timestamp or userId is missing or of the
\* wrong type (a missing userId is allowed in an announce).
MalformedAnnounce(body) ==
  \/ body.roomId.type # "string"
  \/ body.peerId.type # "string"
  \/ body.timestamp.type # "number"
  \/ body.userId.type \notin {"string", "undefined"}

MalformedRemove(body) ==
  \/ body.roomId.type # "string"
  \/ body.userId.type # "string"

\* C15: an announce or a remove with a malformed payload is answered with a
\* client error (status 4xx), and the presence store is left as it was.
C15_MalformedPayloadRejected ==
  [][/\ \A body \in PostBodies(now) :
          /\ MalformedAnnounce(body)
          /\ RedisPOSTRequest(body) \/ \E rateOk \in BOOLEAN : MemAPOSTRequest(body, rateOk)
          => /\ lastResp'.op = "POST"
             /\ lastResp'.status \in 400..499
             /\ UNCHANGED <<redisHash, redisExpireAt, presenceCache, arrays, objects>>
     /\ \A body \in DeleteBodies :
          /\ MalformedRemove(body)
          /\ RedisDELETERequest(body) \/ MemADELETERequest(body)
          => /\ lastResp'.op = "DELETE"
             /\ lastResp'.status \in 400..499
             /\ UNCHANGED <<redisHash, redisExpireAt, presenceCache, arrays, objects>>]_vars

\* C16: in route.ts an announce without userId succeeds and returns an id
\* assigned by the server, an announce with a userId (any string that the
\* schema accepts) returns that userId, and in both cases the record is
\* stored, and listed, under exactly the id that is returned.
C16_ReturnedIdIsTheStoredId ==
  [][\A body \in PostBodies(now) :
       variant = "redis" /\ presenceSchema(body) /\ RedisPOSTRequest(body)
       => /\ lastResp'.op = "POST"
          /\ lastResp'.status = 200
          /\ lastResp'.userId # NoUser
          /\ body.userId.type = "string" => lastResp'.userId = body.userId.str
          /\ RecordsOf(StoredEntriesNext(body.roomId.str), lastResp'.userId)
               = <<Record(lastResp'.userId, body.peerId.str, body.timestamp.num)>>
          /\ RecordsOf(ListedNext(body.roomId.str), lastResp'.userId)
               = <<Record(lastResp'.userId, body.peerId.str, body.timestamp.num)>>]_vars

(***************************************************************************)
(* An abandoned room: requests arrive for a while, then none for the       *)
(* room-level retention period ROOM_EXPIRY (route.ts or room-service.ts).  *)
(***************************************************************************)
\* Requests still arrive.
Live == now <= MaxTicks * TickMs

\* No handler is running, and ROOM_EXPIRY seconds pass without a request.
Abandon ==
  /\ Live
  /\ \A slot \in Slots : inflight[slot] = Idle
  /\ now' = now + ROOM_EXPIRY * 1000
  /\ UNCHANGED <<rateVars, agentVars, variant, roomTable, redisHash, redisExpireAt, memVars, lastResp>>

InitAbandon == variant \in {"redis", "memA"} /\ InitCommon

NextAbandon ==
  \/ Tick
  \/ Abandon
  \/ Live /\ RedisGET("r1")
  \/ Live /\ \E userId \in Users : RedisPOST("r1", userId, "peerA", now)
  \/ Live /\ RedisDELETE("r1", "u1")
  \/ Live /\ MemAGET("r1", TRUE) /\ UNCHANGED rateVars
  \/ \E slot \in Slots : MemAGETResume(slot)
  \/ Live /\ \E userId \in Users : MemAPOST("r1", userId, "peerA", now, TRUE)
                                    /\ UNCHANGED rateVars
  \/ \E slot \in Slots : MemAPOSTResume(slot)
  \/ Live /\ MemADELETE("r1", "u1")

\* Time passes: the period without requests does come.
SpecAbandon == InitAbandon /\ [][NextAbandon]_vars /\ WF_vars(Abandon)

\* ROOM_EXPIRY has passed since the last request.
Abandoned == now >= ROOM_EXPIRY * 1000

\* C17: once no announce has arrived for a room for ROOM_EXPIRY, the store
\* eventually holds no presence record of the room, without a further
\* request and whatever the age of the single records.
C17_AbandonedRoomReclaimed ==
  \A room \in Rooms : Abandoned ~> (StoredEntries(room) = <<>>)

(***************************************************************************)
(* A Redis hash that holds a malformed entry (route.ts).                   *)
(***************************************************************************)
\* Texts of objects that lack peerId or timestamp, and texts of no object.
MalformedTexts ==
  {EmptyText, BrokenText, NullText,
   JSONStringify([userId |-> "u2", peerId |-> UndefinedString, timestamp |-> 0]),
   JSONStringify([userId |-> "u2", peerId |-> "peerB", timestamp |-> UndefinedNumber])}

\* The hash of r1 holds one malformed entry, under the field u2, written at
\* time 0 together with the key's expiry.
InitMalformedStore ==
  /\ variant = "redis"
  /\ InitAgentIdle
  /\ now = 0
  /\ roomTable = <<RoomRow("r1", addDays(0, LIFETIME_DAYS), TRUE)>>
  /\ presenceCache = [r \in Rooms |-> NoRef]
  /\ arrays = <<>>
  /\ objects = <<>>
  /\ presenceCacheB = [r \in Rooms |-> <<>>]
  /\ roomExistenceCache = [r \in Rooms |-> NoExistenceEntry]
  /\ inflight = [s \in Slots |-> Idle]
  /\ requests = 0
  /\ rateLimitMap = EmptyHash
  /\ admitted = <<>>
  /\ lastResp = NoResponse
  /\ \E text \in MalformedTexts :
       redisHash = [r \in Rooms |-> IF r = "r1" THEN [f \in {"u2"} |-> text]
                                                 ELSE EmptyHash]
  /\ redisExpireAt = [r \in Rooms |-> IF r = "r1" THEN ROOM_EXPIRY * 1000 ELSE NoExpire]

NextMalformedStore ==
  \/ Tick
  \/ RedisGET("r1")
  \/ \E peerId \in Peers, timestamp \in ClientTimestamps(now) :
       RedisPOST("r1", "u1", peerId, timestamp)
  \/ RedisDELETE("r1", "u1")

SpecMalformedStore == InitMalformedStore /\ [][NextMalformedStore]_vars

\* A stored text is well-formed: the text of an object with a peerId and a
\* timestamp.
WellFormed(text) ==
  /\ Len(text) = 3
  /\ text[2][2] # UndefinedString
  /\ text[3][2] # UndefinedNumber

\* C18: a list of a room whose stored set holds malformed entries succeeds,
\* its body has every well-formed record younger than PRESENCE_TIMEOUT, and
\* it has no entry for a malformed one, be it unparsable or an object that
\* lacks peerId or timestamp.
C18_MalformedEntriesDropped ==
  [][\A room \in Rooms :
       RedisGET(room) =>
         /\ lastResp'.status = 200
         /\ \A userId \in DOMAIN hgetall(room, now) :
              LET text == hgetall(room, now)[userId]
              IN IF WellFormed(text)
                   THEN now - text[3][2] < PRESENCE_TIMEOUT
                          => Record(userId, text[2][2], text[3][2])
                               \in Range(RedisGETBody(room, now))
                   ELSE RecordsOf(RedisGETBody(room, now), userId) = <<>>]_vars

(***************************************************************************)
(* The client hook usePeerVoiceChat (src/hooks/use-peer-voice-chat.ts).    *)
(* The file holds two versions of the hook, "v1" and "v2"; `hook` says     *)
(* which one is mounted.  The agent is userIdRef; the other agents of the  *)
(* room, the PeerJS server and the presence endpoint are its environment.  *)
(***************************************************************************)
MaxCalls == 3
MaxPolls == 2
MaxIntervals == 2

maxReconnectAttempts == 3

Hooks == {"v1", "v2"}

serverVars == <<variant, now, roomTable, redisHash, redisExpireAt, memVars,
                rateVars, lastResp>>

\* `voicechat-${roomId}-`
roomPrefixRef == "voicechat-r1-"

\* `${roomPrefixRef.current}${userId}`: the prefix, then the user id.
PeerIdOf(userId) == <<roomPrefixRef, userId>>

\* call.peer.replace(roomPrefixRef.current, "")
CallerIdOf(peerId) == IF peerId[1] = roomPrefixRef THEN peerId[2] ELSE peerId

\* A media call as peer.call or the "call" event hands it over: nothing
\* received yet, no Audio element.
Call(userId, dir) ==
  [peer |-> userId, dir |-> dir, state |-> "pending", audio |-> "none"]

Event(op, call, ok) == [op |-> op, call |-> call, ok |-> ok]

\* The participants array of a presence response listing the user ids S.
Listing(S) == SetToSeq({[userId |-> u, peerId |-> PeerIdOf(u)] : u \in S})

PollBodies == {Listing(S) : S \in SUBSET (Others \cup {userIdRef})}

\* clearInterval(ref.current) under `if (ref.current)`: a live timer stops,
\* and the ref keeps the id.
clearedRef(ref) == IF ref = "live" THEN "cleared" ELSE ref
clearedCount(ref, count) == IF ref = "live" THEN count - 1 ELSE count

\* The agent state right after the effects of the first render ran on a
\* browser that held no user id for the room: v2 drew one and stored it
\* (lines 597-608), v1 drew one and keeps it in the ref only (line 29);
\* getUserMedia is awaited; v1 has already set its presence interval
\* (line 377).
InitHook(h) ==
  /\ hook = h
  /\ mounted = TRUE
  /\ peerRef = "null"
  /\ peerState = "none"
  /\ localStreamRef = "null"
  /\ isConnected = FALSE
  /\ error = "null"
  /\ participantIds = {}
  /\ peersRef = [u \in Others |-> NoCall]
  /\ calls = <<>>
  /\ pollIntervals = 0
  /\ participantPollingIntervalRef = "null"
  /\ presenceIntervals = IF h = "v1" THEN 1 ELSE 0
  /\ presenceIntervalRef = IF h = "v1" THEN "live" ELSE "null"
  /\ pendingFetch = [NoFetch EXCEPT !.media = TRUE]
  /\ reconnectAttemptsRef = 0
  /\ firstAnnounce = "none"
  /\ lastEvent = NoEvent
  /\ localStorage = IF h = "v2" THEN 1 ELSE NoItem
  /\ userIdCurrent = 1
  /\ uuidCount = 1
  /\ screenStream = "null"
  /\ explicitLeave = FALSE
  /\ rendezvous = NoRendezvous
  /\ iceRestarts = NoRestarts

\* getUserMedia resolved: the stream is kept and the Peer created, unless
\* the effect was cleaned up meanwhile.
MediaGranted ==
  /\ pendingFetch.media
  /\ pendingFetch' = [pendingFetch EXCEPT !.media = FALSE]
  /\ IF mounted
       THEN /\ localStreamRef' = "live"
            /\ peerRef' = "peer"
            /\ peerState' = "connecting"
       ELSE UNCHANGED <<localStreamRef, peerRef, peerState>>
  /\ lastEvent' = Event("media", NoCall, TRUE)
  /\ UNCHANGED <<serverVars, hook, mounted, isConnected, error,
                 participantIds, peersRef, calls, pollIntervals,
                 participantPollingIntervalRef, presenceIntervals,
                 presenceIntervalRef, reconnectAttemptsRef,
                 firstAnnounce, localStorage, userIdCurrent, uuidCount,
                 screenStream, explicitLeave, rendezvous, iceRestarts>>

\* getUserMedia rejected: the catch of initializeVoiceChat.
MediaDenied ==
  /\ pendingFetch.media
  /\ pendingFetch' = [pendingFetch EXCEPT !.media = FALSE]
  /\ error' = "Failed to initialize voice chat"
  /\ lastEvent' = Event("media", NoCall, FALSE)
  /\ UNCHANGED <<serverVars, hook, mounted, peerRef, peerState,
                 localStreamRef, isConnected, participantIds, peersRef,
                 calls, pollIntervals, participantPollingIntervalRef,
                 presenceIntervals, presenceIntervalRef,
                 reconnectAttemptsRef, firstAnnounce, localStorage,
                 userIdCurrent, uuidCount, screenStream, explicitLeave,
                 rendezvous, iceRestarts>>

\* fetchParticipants up to its await: a request leaves unless peerRef is null.
pollsAfterFetch(polls, ref) == IF ref = "null" THEN polls ELSE polls + 1

\* broadcastPresence up to its await: a POST with timestamp Date.now() leaves
\* unless peerRef is null.  stored: the endpoint has handled it.
Announce(timestamp) == [timestamp |-> timestamp, stored |-> FALSE]

announcesAfterBroadcast(announces, ref, t) ==
  IF ref = "null" THEN announces ELSE Append(announces, Announce(t))

\* The "open" event of the Peer.  v2 awaits broadcastPresence; v1 sends the
\* announce and starts the polling at once.
PeerOpen ==
  /\ peerState = "connecting"
  /\ Len(pendingFetch.announces) < MaxPolls
  /\ peerState' = "open"
  /\ lastEvent' = Event("open", NoCall, TRUE)
  /\ IF hook = "v2"
       THEN /\ UNCHANGED <<pollIntervals, participantPollingIntervalRef>>
            /\ IF mounted
                 THEN /\ isConnected' = TRUE
                      /\ reconnectAttemptsRef' = 0
                      /\ pendingFetch' = [pendingFetch EXCEPT
                                            !.opens = @ + 1,
                                            !.announces =
                                               announcesAfterBroadcast(@, peerRef, now)]
                 ELSE UNCHANGED <<isConnected, reconnectAttemptsRef, pendingFetch>>
       ELSE /\ pollIntervals < MaxIntervals
            /\ pendingFetch.polls < MaxPolls
            /\ isConnected' = TRUE
            /\ pendingFetch' = [pendingFetch EXCEPT
                                  !.announces = announcesAfterBroadcast(@, peerRef, now),
                                  !.polls = pollsAfterFetch(@, peerRef)]
            /\ pollIntervals' = pollIntervals + 1
            /\ participantPollingIntervalRef' = "live"
            /\ UNCHANGED reconnectAttemptsRef
  /\ UNCHANGED <<serverVars, hook, mounted, peerRef, localStreamRef,
                 error, participantIds, peersRef, calls,
                 presenceIntervals, presenceIntervalRef, firstAnnounce,
                 localStorage, userIdCurrent, uuidCount, screenStream,
                 explicitLeave, rendezvous, iceRestarts>>

\* v2: the open handler resumes after `await broadcastPresence()`, whose
\* promise resolves whatever the response was, and starts the polling.  The
\* open handler is the only caller of broadcastPresence in v2.
OpenResume(ok) ==
  /\ hook = "v2"
  /\ pendingFetch.opens > 0
  /\ pendingFetch.announces # <<>>
  /\ pollIntervals < MaxIntervals
  /\ pendingFetch.polls < MaxPolls
  /\ pendingFetch' = [pendingFetch EXCEPT
                        !.opens = @ - 1,
                        !.announces = Tail(@),
                        !.polls = pollsAfterFetch(@, peerRef)]
  /\ pollIntervals' = pollIntervals + 1
  /\ participantPollingIntervalRef' = "live"
  /\ firstAnnounce' = IF firstAnnounce # "none" THEN firstAnnounce
                      ELSE IF ok THEN "ok" ELSE "failed"
  /\ lastEvent' = Event("openResume", NoCall, ok)
  /\ UNCHANGED <<serverVars, hook, mounted, peerRef, peerState,
                 localStreamRef, isConnected, error, participantIds,
                 peersRef, calls, presenceIntervals,
                 presenceIntervalRef, reconnectAttemptsRef,
                 localStorage, userIdCurrent, uuidCount, screenStream,
                 explicitLeave, rendezvous, iceRestarts>>

\* A poll interval fires: fetchParticipants up to its await.
PollTick ==
  /\ pollIntervals > 0
  /\ pendingFetch.polls < MaxPolls
  /\ pendingFetch' = [pendingFetch EXCEPT !.polls = pollsAfterFetch(@, peerRef)]
  /\ lastEvent' = Event("pollTick", NoCall, peerRef # "null")
  /\ UNCHANGED <<serverVars, hook, mounted, peerRef, peerState,
                 localStreamRef, isConnected, error, participantIds,
                 peersRef, calls, pollIntervals,
                 participantPollingIntervalRef, presenceIntervals,
                 presenceIntervalRef, reconnectAttemptsRef,
                 firstAnnounce, localStorage, userIdCurrent, uuidCount,
                 screenStream, explicitLeave, rendezvous, iceRestarts>>

\* v1: the presence interval fires: broadcastPresence up to its await.
AnnounceTick ==
  /\ presenceIntervals > 0
  /\ Len(pendingFetch.announces) < MaxPolls
  /\ pendingFetch' = [pendingFetch EXCEPT
                        !.announces = announcesAfterBroadcast(@, peerRef, now)]
  /\ lastEvent' = Event("announceTick", NoCall, peerRef # "null")
  /\ UNCHANGED <<serverVars, hook, mounted, peerRef, peerState,
                 localStreamRef, isConnected, error, participantIds,
                 peersRef, calls, pollIntervals,
                 participantPollingIntervalRef, presenceIntervals,
                 presenceIntervalRef, reconnectAttemptsRef,
                 firstAnnounce, localStorage, userIdCurrent, uuidCount,
                 screenStream, explicitLeave, rendezvous, iceRestarts>>

\* broadcastPresence after its await, for an announce nobody awaits: the
\* response is logged.
AnnounceResponse(ok) ==
  /\ hook = "v1"
  /\ pendingFetch.announces # <<>>
  /\ pendingFetch' = [pendingFetch EXCEPT !.announces = Tail(@)]
  /\ firstAnnounce' = IF firstAnnounce # "none" THEN firstAnnounce
                      ELSE IF ok THEN "ok" ELSE "failed"
  /\ lastEvent' = Event("announce", NoCall, ok)
  /\ UNCHANGED <<serverVars, hook, mounted, peerRef, peerState,
                 localStreamRef, isConnected, error, participantIds,
                 peersRef, calls, pollIntervals,
                 participantPollingIntervalRef, presenceIntervals,
                 presenceIntervalRef, reconnectAttemptsRef,
                 localStorage, userIdCurrent, uuidCount, screenStream,
                 explicitLeave, rendezvous, iceRestarts>>
\* The user ids of a response, without the agent's own and without repeats.
currentParticipants(data) == {data[i].userId : i \in DOMAIN data} \ {userIdRef}

\* The guards of callPeer that return before peer.call.  v1 has no has().
callPeerReturns(userId) ==
  \/ peerRef = "null"
  \/ localStreamRef = "null"
  \/ hook = "v2" /\ peersRef[userId] # NoCall

\* A poll that calls nobody.  C28 must tell the two apart.
ToCallNobody(data) == {}

\* The users the forEach of fetchParticipants calls.  peer.call hands out a
\* call only while the Peer is open; otherwise `call.on` throws into the
\* catch of fetchParticipants and nobody is called.
ToCall(data) ==
  IF peerState # "open" THEN {}
  ELSE {u \in currentParticipants(data) :
          /\ \E i \in DOMAIN data :
               /\ data[i].userId = u
               /\ hook = "v2" => peerRef = "null" \/ data[i].peerId # PeerIdOf(userIdRef)
          /\ peersRef[u] = NoCall
          /\ ~callPeerReturns(u)}

\* The calls after callPeer ran for each user of S.
callsAfterCalling(S) ==
  LET order == SetToSeq(S)
  IN calls \o [i \in 1..Len(order) |-> Call(order[i], "out")]

\* A poll that also drops the sessions of the users the response does not
\* list.  C24 must tell the two apart.
PollResponsePruning(data, ok) ==
  /\ pendingFetch.polls > 0
  /\ pendingFetch' = [pendingFetch EXCEPT !.polls = @ - 1]
  /\ lastEvent' = Event("poll", NoCall, ok)
  /\ IF ok
       THEN /\ Len(calls) + Cardinality(ToCall(data)) <= MaxCalls
            /\ participantIds' = IF hook = "v2" THEN currentParticipants(data)
                                 ELSE participantIds
            /\ calls' = callsAfterCalling(ToCall(data))
            /\ peersRef' = [u \in Others |->
                              IF u \in currentParticipants(data) THEN peersRef[u]
                              ELSE NoCall]
       ELSE UNCHANGED <<participantIds, calls, peersRef>>
  /\ UNCHANGED <<serverVars, hook, mounted, peerRef, peerState,
                 localStreamRef, isConnected, error, pollIntervals,
                 participantPollingIntervalRef, presenceIntervals,
                 presenceIntervalRef, reconnectAttemptsRef,
                 firstAnnounce, localStorage, userIdCurrent, uuidCount,
                 screenStream, explicitLeave, rendezvous, iceRestarts>>

\* fetchParticipants after its await.  ok: the request succeeded and the
\* body says success.
PollResponse(data, ok) ==
  /\ pendingFetch.polls > 0
  /\ pendingFetch' = [pendingFetch EXCEPT !.polls = @ - 1]
  /\ lastEvent' = Event("poll", NoCall, ok)
  /\ IF ok
       THEN /\ Len(calls) + Cardinality(ToCall(data)) <= MaxCalls
            /\ participantIds' = IF hook = "v2" THEN currentParticipants(data)
                                 ELSE participantIds
            /\ calls' = callsAfterCalling(ToCall(data))
       ELSE UNCHANGED <<participantIds, calls>>
  /\ UNCHANGED <<serverVars, hook, mounted, peerRef, peerState,
                 localStreamRef, isConnected, error, peersRef,
                 pollIntervals, participantPollingIntervalRef,
                 presenceIntervals, presenceIntervalRef,
                 reconnectAttemptsRef, firstAnnounce, localStorage,
                 userIdCurrent, uuidCount, screenStream, explicitLeave,
                 rendezvous, iceRestarts>>

\* The "call" event of the Peer: the call of another agent is answered.
IncomingCall(peerId) ==
  /\ peerState = "open"
  /\ Len(calls) < MaxCalls
  /\ calls' = Append(calls, Call(CallerIdOf(peerId), "in"))
  /\ lastEvent' = Event("call", Len(calls) + 1, TRUE)
  /\ UNCHANGED <<serverVars, hook, mounted, peerRef, peerState,
                 localStreamRef, isConnected, error, participantIds,
                 peersRef, pollIntervals,
                 participantPollingIntervalRef, presenceIntervals,
                 presenceIntervalRef, pendingFetch,
                 reconnectAttemptsRef, firstAnnounce, localStorage,
                 userIdCurrent, uuidCount, screenStream, explicitLeave,
                 rendezvous, iceRestarts>>

\* The "stream" event of a call: the Audio element is made and the entry set.
CallStream(c) ==
  /\ calls[c].state = "pending"
  /\ calls' = [calls EXCEPT ![c].state = "open", ![c].audio = "playing"]
  /\ peersRef' = [peersRef EXCEPT ![calls[c].peer] = c]
  /\ participantIds' = participantIds \cup {calls[c].peer}
  /\ lastEvent' = Event("stream", c, TRUE)
  /\ UNCHANGED <<serverVars, hook, mounted, peerRef, peerState,
                 localStreamRef, isConnected, error, pollIntervals,
                 participantPollingIntervalRef, presenceIntervals,
                 presenceIntervalRef, pendingFetch,
                 reconnectAttemptsRef, firstAnnounce, localStorage,
                 userIdCurrent, uuidCount, screenStream, explicitLeave,
                 rendezvous, iceRestarts>>

\* peer.audio.srcObject = null, for the entry the table holds.
audioReleased(cs, entry) ==
  IF entry = NoCall THEN cs ELSE [cs EXCEPT ![entry].audio = "released"]

\* The "close" event of a call.  The handler looks the entry up by user id:
\* it releases and deletes whatever entry the table holds for that user.
\* The handler of handleAudioCall (v2) also closes the call of that entry.
CallClose(c) ==
  LET userId == calls[c].peer
      entry == peersRef[userId]
      closed == [calls EXCEPT ![c].state = "closed"]
  IN /\ calls[c].state # "closed"
     /\ calls' = IF hook = "v2" /\ calls[c].dir = "in" /\ entry # NoCall
                   THEN [audioReleased(closed, entry) EXCEPT ![entry].state = "closed"]
                   ELSE audioReleased(closed, entry)
     /\ peersRef' = [peersRef EXCEPT ![userId] = NoCall]
     /\ participantIds' = participantIds \ {userId}
     /\ lastEvent' = Event("close", c, TRUE)
     /\ UNCHANGED <<serverVars, hook, mounted, peerRef, peerState,
                 localStreamRef, isConnected, error, pollIntervals,
                 participantPollingIntervalRef, presenceIntervals,
                 presenceIntervalRef, pendingFetch,
                 reconnectAttemptsRef, firstAnnounce, localStorage,
                 userIdCurrent, uuidCount, screenStream, explicitLeave,
                 rendezvous, iceRestarts>>

\* The "error" event of a call whose connection has not failed: the error
\* is shown (v1's callPeer only logs it); the table is not touched.
CallError(c) ==
  /\ calls[c].state # "closed"
  /\ error' = IF hook = "v1" /\ calls[c].dir = "out" THEN error ELSE "Call error"
  /\ lastEvent' = Event("error", c, TRUE)
  /\ UNCHANGED <<serverVars, hook, mounted, peerRef, peerState,
                 localStreamRef, isConnected, participantIds, peersRef,
                 calls, pollIntervals, participantPollingIntervalRef,
                 presenceIntervals, presenceIntervalRef, pendingFetch,
                 reconnectAttemptsRef, firstAnnounce, localStorage,
                 userIdCurrent, uuidCount, screenStream, explicitLeave,
                 rendezvous, iceRestarts>>

\* The "error" event of the Peer.
PeerError ==
  /\ peerState \in {"connecting", "open"}
  /\ error' = "Connection error"
  /\ lastEvent' = Event("peerError", NoCall, TRUE)
  /\ UNCHANGED <<serverVars, hook, mounted, peerRef, peerState,
                 localStreamRef, isConnected, participantIds, peersRef,
                 calls, pollIntervals, participantPollingIntervalRef,
                 presenceIntervals, presenceIntervalRef, pendingFetch,
                 reconnectAttemptsRef, firstAnnounce, localStorage,
                 userIdCurrent, uuidCount, screenStream, explicitLeave,
                 rendezvous, iceRestarts>>

\* The "disconnected" event of the Peer: v1 always reconnects, v2 up to
\* maxReconnectAttempts times.
PeerDisconnected ==
  /\ peerState = "open"
  /\ isConnected' = FALSE
  /\ IF hook = "v2" /\ ~(reconnectAttemptsRef < maxReconnectAttempts)
       THEN peerState' = "disconnected" /\ UNCHANGED reconnectAttemptsRef
       ELSE /\ peerState' = "connecting"
            /\ reconnectAttemptsRef' = IF hook = "v2" THEN reconnectAttemptsRef + 1
                                       ELSE reconnectAttemptsRef
  /\ lastEvent' = Event("disconnected", NoCall, TRUE)
  /\ UNCHANGED <<serverVars, hook, mounted, peerRef, localStreamRef,
                 error, participantIds, peersRef, calls, pollIntervals,
                 participantPollingIntervalRef, presenceIntervals,
                 presenceIntervalRef, pendingFetch, firstAnnounce,
                 localStorage, userIdCurrent, uuidCount, screenStream,
                 explicitLeave, rendezvous, iceRestarts>>

\* What teardown does to the calls: the calls of the table entries are
\* closed and their audio released; peer.destroy() closes every call of a
\* Peer the ref still holds.
callsAfterTeardown ==
  [c \in DOMAIN calls |->
     [calls[c] EXCEPT
        !.state = IF peerRef # "null" \/ (\E u \in Others : peersRef[u] = c)
                    THEN "closed" ELSE @,
        !.audio = IF \E u \in Others : peersRef[u] = c THEN "released" ELSE @]]

\* What they share (the DELETE they send, not awaited, is counted by the
\* caller): both intervals are
\* cleared, the calls closed, the table cleared, the Peer destroyed; v2
\* removes the stored user id.
cleanup ==
  /\ pendingFetch.removes < MaxPolls
  /\ presenceIntervals' = clearedCount(presenceIntervalRef, presenceIntervals)
  /\ presenceIntervalRef' = clearedRef(presenceIntervalRef)
  /\ pollIntervals' = clearedCount(participantPollingIntervalRef, pollIntervals)
  /\ participantPollingIntervalRef' = clearedRef(participantPollingIntervalRef)
  /\ calls' = callsAfterTeardown
  /\ peersRef' = [u \in Others |-> NoCall]
  /\ peerState' = IF peerRef # "null" THEN "destroyed" ELSE peerState
  /\ localStorage' = IF hook = "v2" THEN NoItem ELSE localStorage

\* A teardown whose disconnect was created by the current render: it sees the
\* current screen stream and stops it (lines 824-829).
Teardown ==
  /\ cleanup
  /\ pendingFetch' = [pendingFetch EXCEPT !.removes = @ + 1]
  /\ screenStream' = "null"

\* disconnect(), the explicit leave.
Disconnect ==
  /\ Teardown
  /\ peerRef' = IF hook = "v2" THEN "null" ELSE peerRef
  /\ localStreamRef' = "null"
  /\ isConnected' = FALSE
  /\ participantIds' = {}
  /\ error' = IF hook = "v2" THEN "null" ELSE error
  /\ lastEvent' = Event("disconnect", NoCall, TRUE)
  /\ explicitLeave' = TRUE
  /\ UNCHANGED <<serverVars, hook, mounted, reconnectAttemptsRef,
                 firstAnnounce, userIdCurrent, uuidCount, rendezvous,
                 iceRestarts>>

\* The cleanup of the init effect.  v2 calls disconnect(); v1 has its own
\* teardown, which keeps both refs and sets no state but what the "close"
\* handler of the destroyed Peer sets.
Unmount ==
  /\ mounted
  /\ mounted' = FALSE
  /\ Teardown
  /\ peerRef' = IF hook = "v2" THEN "null" ELSE peerRef
  /\ localStreamRef' = IF hook = "v2" THEN "null"
                       ELSE IF localStreamRef = "live" THEN "stopped" ELSE localStreamRef
  /\ isConnected' = IF hook = "v2" \/ peerRef # "null" THEN FALSE ELSE isConnected
  /\ participantIds' = IF hook = "v2" THEN {} ELSE participantIds
  /\ error' = IF hook = "v2" THEN "null" ELSE error
  /\ lastEvent' = Event("unmount", NoCall, TRUE)
  /\ UNCHANGED <<serverVars, hook, reconnectAttemptsRef, firstAnnounce,
                 userIdCurrent, uuidCount, explicitLeave, rendezvous,
                 iceRestarts>>

\* The response to the DELETE of a teardown, or its failure: the catch logs.
RemoveResponse(ok) ==
  /\ pendingFetch.removes > 0
  /\ pendingFetch' = [pendingFetch EXCEPT !.removes = @ - 1]
  /\ lastEvent' = Event("remove", NoCall, ok)
  /\ UNCHANGED <<serverVars, hook, mounted, peerRef, peerState,
                 localStreamRef, isConnected, error, participantIds,
                 peersRef, calls, pollIntervals,
                 participantPollingIntervalRef, presenceIntervals,
                 presenceIntervalRef, reconnectAttemptsRef,
                 firstAnnounce, localStorage, userIdCurrent, uuidCount,
                 screenStream, explicitLeave, rendezvous, iceRestarts>>
(***************************************************************************)
(* The agent alone: every response of the endpoint and every event of the  *)
(* PeerJS layer is an input.                                               *)
(***************************************************************************)
InitServerIdle ==
  /\ variant = "redis"
  /\ now = 0
  /\ roomTable = <<RoomRow("r1", addDays(0, LIFETIME_DAYS), TRUE)>>
  /\ redisHash = [r \in Rooms |-> EmptyHash]
  /\ redisExpireAt = [r \in Rooms |-> NoExpire]
  /\ presenceCache = [r \in Rooms |-> NoRef]
  /\ arrays = <<>>
  /\ objects = <<>>
  /\ presenceCacheB = [r \in Rooms |-> <<>>]
  /\ roomExistenceCache = [r \in Rooms |-> NoExistenceEntry]
  /\ inflight = [s \in Slots |-> Idle]
  /\ requests = 0
  /\ rateLimitMap = EmptyHash
  /\ admitted = <<>>
  /\ lastResp = NoResponse

InitAgent == InitServerIdle /\ InitHook("v2")
(***************************************************************************)
(* The sessions of an agent that stays in the room.                        *)
(***************************************************************************)
NextSessions ==
  \/ MediaGranted
  \/ PeerOpen
  \/ \E ok \in BOOLEAN : OpenResume(ok)
  \/ PollTick
  \/ \E data \in PollBodies, ok \in BOOLEAN : PollResponse(data, ok)
  \/ \E u \in Others : IncomingCall(PeerIdOf(u))
  \/ \E c \in DOMAIN calls : CallStream(c)
  \/ \E c \in DOMAIN calls : CallClose(c)
  \/ \E c \in DOMAIN calls : CallError(c)

SpecSessions == InitAgent /\ [][NextSessions]_vars
\* The sessions with a user, pending or open: the calls not yet closed.
SessionsWith(userId) ==
  {c \in DOMAIN calls : calls[c].peer = userId /\ calls[c].state # "closed"}

\* C21: the agent never has more than one session, pending or open, with
\* the same peer: not after repeated polls, not when a poll fires while an
\* earlier call to the peer has not delivered its stream, not when both
\* agents call each other.
C21_OneSessionPerPeer ==
  \A u \in Others : Cardinality(SessionsWith(u)) <= 1

\* C22: first writer wins.  While the table holds a session for a peer, no
\* new session with that peer is started or answered, and the entry is
\* never replaced by another call: it stays or it is removed.
C22_FirstWriterWins ==
  [][\A u \in Others :
       peersRef[u] # NoCall =>
         /\ peersRef'[u] \in {peersRef[u], NoCall}
         /\ SessionsWith(u)' \subseteq SessionsWith(u)]_vars

\* The step is the "close" handler of call c running for a session that
\* the other side or the transport ended.
SessionEnded(c) ==
  /\ c \in DOMAIN calls
  /\ calls[c].state # "closed"
  /\ lastEvent' = Event("close", c, TRUE)

\* C23: once a session with a peer has ended (closed by the peer, or by an
\* error or ICE failure of the transport), the table has no entry for that
\* peer and the audio of the session is released.
C23_EndedSessionCleared ==
  [][\A c \in DOMAIN calls :
       SessionEnded(c) =>
         /\ peersRef'[calls[c].peer] = NoCall
         /\ calls'[c].audio # "playing"]_vars

\* C26: the poll loop starts only after the first announce has succeeded;
\* when the first announce fails, no periodic loop is started and the
\* failure is shown to the caller in the error state.
C26_SteadyOnlyAfterAnnounce ==
  /\ pollIntervals > 0 => firstAnnounce = "ok"
  /\ firstAnnounce = "failed" => pollIntervals = 0 /\ error # "null"

\* C37: the table has an entry for a peer exactly when a session with that
\* peer that delivered media is still open, and the entry is such a
\* session; the close of an older session never takes away the entry of a
\* newer one that is still open.
C37_EntryIffOpenSession ==
  \A u \in Others :
    /\ peersRef[u] # NoCall <=>
         \E c \in DOMAIN calls : calls[c].peer = u /\ calls[c].state = "open"
    /\ peersRef[u] # NoCall =>
         calls[peersRef[u]].peer = u /\ calls[peersRef[u]].state = "open"
(***************************************************************************)
(* The discovery poll, in both versions of the hook.                       *)
(***************************************************************************)
InitPolling == InitServerIdle /\ \E h \in Hooks : InitHook(h)

NextPolling ==
  \/ MediaGranted
  \/ PeerOpen
  \/ \E ok \in BOOLEAN : OpenResume(ok)
  \/ \E ok \in BOOLEAN : AnnounceResponse(ok)
  \/ PollTick
  \/ \E data \in PollBodies, ok \in BOOLEAN : PollResponse(data, ok)
  \/ \E u \in Others : IncomingCall(PeerIdOf(u))
  \/ \E c \in DOMAIN calls : CallStream(c)
  \/ \E c \in DOMAIN calls : CallClose(c)

SpecPolling == InitPolling /\ [][NextPolling]_vars

\* C24: a discovery poll, when it is sent and when its response is handled,
\* removes and closes nothing: every table entry and every call made before
\* is as it was, whether the response lists the peer or not.
C24_PollKeepsTable ==
  [][lastEvent'.op \in {"poll", "pollTick"} =>
       /\ peersRef' = peersRef
       /\ \A c \in DOMAIN calls : calls'[c] = calls[c]]_vars

\* C24's case: a successful response has just been handled that does not
\* list a user the table holds a session for.
C24_PeerAbsentFromPoll ==
  /\ lastEvent = Event("poll", NoCall, TRUE)
  /\ hook = "v2"
  /\ \E u \in Others : peersRef[u] # NoCall /\ u \notin participantIds
(***************************************************************************)
(* The agent against the redis build of the endpoint, with the clock: the  *)
(* announces reach the store, the polls read it.                           *)
(***************************************************************************)
PRESENCE_INTERVAL == 60000

\* The agent is in Steady: its first announce was answered with success and
\* its poll loop runs on an open Peer.
Steady ==
  /\ firstAnnounce = "ok"
  /\ participantPollingIntervalRef = "live"
  /\ peerRef = "peer"
  /\ peerState = "open"

\* The POST of the oldest announce not yet handled reaches the endpoint.
AnnounceArrives ==
  \E i \in DOMAIN pendingFetch.announces :
    /\ variant = "redis"
    /\ ~pendingFetch.announces[i].stored
    /\ \A j \in 1..(i - 1) : pendingFetch.announces[j].stored
    /\ RedisStore("r1", userIdRef, PeerIdOf(userIdRef),
                  pendingFetch.announces[i].timestamp)
    /\ pendingFetch' = [pendingFetch EXCEPT !.announces[i].stored = TRUE]
    /\ UNCHANGED <<variant, now, roomTable, memVars, rateVars, hook, mounted,
                   peerRef, peerState, localStreamRef, isConnected, error,
                   participantIds, peersRef, calls, pollIntervals,
                   participantPollingIntervalRef, presenceIntervals,
                   presenceIntervalRef, reconnectAttemptsRef, firstAnnounce,
                   lastEvent, localStorage, userIdCurrent, uuidCount,
                 screenStream, explicitLeave, rendezvous, iceRestarts>>

\* The 200 of a handled announce comes back.
AnnounceAnswered ==
  /\ pendingFetch.announces # <<>>
  /\ Head(pendingFetch.announces).stored
  /\ \/ OpenResume(TRUE)
     \/ AnnounceResponse(TRUE)

\* Another agent of the room announces itself.
OtherAnnounces(userId) ==
  /\ variant = "redis"
  /\ RedisStore("r1", userId, PeerIdOf(userId), now)
  /\ UNCHANGED <<variant, now, roomTable, memVars, rateVars, agentVars>>

\* The poll is answered with what the store lists now.
PollAnswered == \E data \in {RedisGETBody("r1", now)} : PollResponse(data, TRUE)

\* TickMs pass, every request sent before being handled within them.  The
\* presence interval of v1 (PRESENCE_INTERVAL) fires in that time.
ClockTick ==
  /\ now + TickMs <= MaxTicks * TickMs
  /\ \A i \in DOMAIN pendingFetch.announces : pendingFetch.announces[i].stored
  /\ Len(pendingFetch.announces) < MaxPolls
  /\ now' = now + TickMs
  /\ pendingFetch' = [pendingFetch EXCEPT
                        !.announces =
                           IF presenceIntervals > 0 /\ TickMs >= PRESENCE_INTERVAL
                             THEN announcesAfterBroadcast(@, peerRef, now')
                             ELSE @]
  /\ UNCHANGED <<variant, roomTable, redisHash, redisExpireAt, memVars, rateVars,
                 lastResp, hook, mounted, peerRef, peerState, localStreamRef,
                 isConnected, error, participantIds, peersRef, calls,
                 pollIntervals, participantPollingIntervalRef, presenceIntervals,
                 presenceIntervalRef, reconnectAttemptsRef, firstAnnounce,
                 lastEvent, localStorage, userIdCurrent, uuidCount,
                 screenStream, explicitLeave, rendezvous, iceRestarts>>

InitAnnounce == InitServerIdle /\ \E h \in Hooks : InitHook(h)

NextAnnounce ==
  \/ MediaGranted
  \/ PeerOpen
  \/ AnnounceArrives
  \/ AnnounceAnswered
  \/ \E u \in Others : OtherAnnounces(u)
  \/ PollTick
  \/ PollAnswered
  \/ PeerError
  \/ ClockTick

SpecAnnounce == InitAnnounce /\ [][NextAnnounce]_vars

\* What a GET of the room answers now lists the user.
ListedNow(userId) ==
  \E i \in DOMAIN RedisGETBody("r1", now) : RedisGETBody("r1", now)[i].userId = userId

\* C25: while the agent is in Steady and its announces succeed, its record
\* is live at every moment: every list of the room includes it.
C25_SteadyAgentListed == Steady => ListedNow(userIdRef)
(***************************************************************************)
(* The whole life of an agent: joining, reconnecting, leaving, unmounting, *)
(* with one other user in the room, whose sessions stay open until the     *)
(* agent leaves.                                                           *)
(***************************************************************************)
InitLifecycle == InitServerIdle /\ \E h \in Hooks : InitHook(h)

NextLifecycle ==
  \/ MediaGranted
  \/ MediaDenied
  \/ PeerOpen
  \/ \E ok \in BOOLEAN : OpenResume(ok)
  \/ AnnounceTick
  \/ \E ok \in BOOLEAN : AnnounceResponse(ok)
  \/ PollTick
  \/ \E S \in SUBSET {"u2"}, ok \in BOOLEAN : PollResponse(Listing(S), ok)
  \/ \E c \in DOMAIN calls : CallStream(c)
  \/ PeerDisconnected
  \/ Disconnect
  \/ Unmount
  \/ \E ok \in BOOLEAN : RemoveResponse(ok)

SpecLifecycle == InitLifecycle /\ [][NextLifecycle]_vars

\* The handler that just finished handled a failed poll or a failed announce.
FailureHandled(event) ==
  /\ event.op \in {"poll", "announce", "openResume"}
  /\ ~event.ok

\* C27: in Steady a failed announce and a failed poll change nothing
\* locally: the table, the calls, both timers and the connected state stay
\* as they are, and no request is sent in place of the failed one.
C27_FailureChangesNothing ==
  [][Steady /\ FailureHandled(lastEvent') =>
       /\ UNCHANGED <<peersRef, calls, isConnected>>
       /\ UNCHANGED <<pollIntervals, participantPollingIntervalRef>>
       /\ UNCHANGED <<presenceIntervals, presenceIntervalRef>>
       /\ pendingFetch'.polls <= pendingFetch.polls
       /\ Len(pendingFetch'.announces) <= Len(pendingFetch.announces)]_vars

\* The step is disconnect() running.
Leaving ==
  /\ lastEvent' = Event("disconnect", NoCall, TRUE)
  /\ pendingFetch'.removes > pendingFetch.removes

\* The agent is torn down: no interval is live, every call is closed, the
\* table is empty, the microphone is released.
TornDown ==
  /\ pollIntervals = 0
  /\ presenceIntervals = 0
  /\ \A c \in DOMAIN calls : calls[c].state = "closed"
  /\ \A u \in Others : peersRef[u] = NoCall
  /\ localStreamRef # "live"

\* C29: an explicit leave, from any state, stops the announce loop and the
\* poll loop, closes every session, empties the table, releases the local
\* media and issues the removal of the presence record; the answer to that
\* removal, success or failure, changes nothing of it.
C29_LeaveTearsDown ==
  [][/\ Leaving => TornDown'
     /\ (TornDown /\ lastEvent'.op = "remove") => TornDown']_vars

\* The agent has left the room: its effect was cleaned up, or a leave
\* destroyed its Peer.
Gone == ~mounted \/ peerState = "destroyed"

\* C30: once the agent has left or was unmounted, no late event (a poll
\* response, an announce response, a stream) adds a peer to the table or to
\* the participant list, starts a call or starts a timer.
C30_NothingAfterLeave ==
  [][Gone =>
       /\ participantIds' \subseteq participantIds
       /\ \A u \in Others : peersRef'[u] \in {peersRef[u], NoCall}
       /\ Len(calls') = Len(calls)
       /\ pollIntervals' <= pollIntervals
       /\ presenceIntervals' <= presenceIntervals]_vars
(***************************************************************************)
(* Two agents in the room with a working transport: the agent, and u2,     *)
(* whose announce the store lists.  Every request is answered, every call  *)
(* delivers its stream, nothing closes.                                    *)
(***************************************************************************)
\* The 200 of the announce the open handler awaits comes back.
OpenAnswered ==
  /\ pendingFetch.announces # <<>>
  /\ Head(pendingFetch.announces).stored
  /\ OpenResume(TRUE)

NextMesh ==
  \/ MediaGranted
  \/ PeerOpen
  \/ AnnounceArrives
  \/ OpenAnswered
  \/ OtherAnnounces("u2")
  \/ PollTick
  \/ PollAnswered
  \/ IncomingCall(PeerIdOf("u2"))
  \/ \E c \in DOMAIN calls : CallStream(c)

\* The interval keeps firing, the endpoint keeps answering, the PeerJS layer
\* keeps delivering.
FairMesh ==
  /\ WF_vars(PollTick)
  /\ WF_vars(PollAnswered)
  /\ WF_vars(\E c \in DOMAIN calls : CallStream(c))

SpecMesh == InitAgent /\ [][NextMesh]_vars /\ FairMesh

\* The step handles a successful poll response.
PollHandled ==
  /\ lastEvent' = Event("poll", NoCall, TRUE)
  /\ pendingFetch'.polls < pendingFetch.polls

\* C28: a poll handled in Steady starts a session with every user of the
\* fetched list that is not the agent and has no table entry; hence, with
\* fair scheduling and a working transport, an agent in Steady gets a
\* session with another agent the room lists.
C28_PollConnectsPeers ==
  /\ [][Steady /\ PollHandled =>
          \A u \in participantIds' :
            peersRef[u] = NoCall =>
              \E c \in DOMAIN calls' :
                /\ c > Len(calls)
                /\ calls'[c] = Call(u, "out")]_vars
  /\ (Steady /\ ListedNow("u2")) ~> (peersRef["u2"] # NoCall)

\* C28's case: the agent is in Steady and the session the table holds for
\* u2 is one a poll of the agent started.
C28_SessionFromPoll ==
  /\ Steady
  /\ peersRef["u2"] # NoCall
  /\ calls[peersRef["u2"]].dir = "out"
  /\ calls[peersRef["u2"]].state = "open"
(***************************************************************************)
(* The participant id across initialisations of the agent.  uuidv4() is    *)
(* modelled as a counter: every draw is a value never seen before.         *)
(***************************************************************************)
MaxUuids == 3

\* Nothing of an earlier initialisation is still pending: no handler is
\* suspended and no interval is live.
Drained ==
  /\ ~pendingFetch.media
  /\ pendingFetch.polls = 0
  /\ pendingFetch.opens = 0
  /\ pendingFetch.announces = <<>>
  /\ pollIntervals = 0
  /\ presenceIntervals = 0

\* The user id a new instance of the hook starts with.  v2 (lines 597-608)
\* reads the stored item and draws a uuid only if there is none; v1
\* (line 29) draws one for every instance.
userIdAfterInit ==
  IF hook = "v2" /\ localStorage # NoItem THEN localStorage ELSE uuidCount + 1

uuidCountAfterInit ==
  IF hook = "v2" /\ localStorage # NoItem THEN uuidCount ELSE uuidCount + 1

\* v2 stores the id it drew (line 602, and again line 613).
localStorageAfterInit == IF hook = "v2" THEN userIdAfterInit ELSE localStorage

\* What a new instance of the hook starts from: fresh refs and states, the
\* init effect has run up to the await of getUserMedia.
FreshInstance ==
  /\ uuidCountAfterInit <= MaxUuids
  /\ userIdCurrent' = userIdAfterInit
  /\ uuidCount' = uuidCountAfterInit
  /\ localStorage' = localStorageAfterInit
  /\ mounted' = TRUE
  /\ peerRef' = "null"
  /\ peerState' = "none"
  /\ localStreamRef' = "null"
  /\ isConnected' = FALSE
  /\ error' = "null"
  /\ participantIds' = {}
  /\ peersRef' = [u \in Others |-> NoCall]
  /\ pollIntervals' = 0
  /\ participantPollingIntervalRef' = "null"
  /\ presenceIntervals' = IF hook = "v1" THEN 1 ELSE 0
  /\ presenceIntervalRef' = IF hook = "v1" THEN "live" ELSE "null"
  /\ reconnectAttemptsRef' = 0
  /\ firstAnnounce' = "none"
  /\ screenStream' = "null"
  /\ explicitLeave' = FALSE

\* The room page is opened again after the hook was unmounted (in-app
\* navigation away and back), once the previous instance has drained.
Mount ==
  /\ ~mounted
  /\ Drained
  /\ FreshInstance
  /\ pendingFetch' = [pendingFetch EXCEPT !.media = TRUE, !.removed = FALSE]
  /\ lastEvent' = Event("mount", NoCall, TRUE)
  /\ UNCHANGED <<serverVars, hook, calls, rendezvous, iceRestarts>>

\* The page is reloaded: the script state, its timers, its calls and the
\* handlers waiting for a response are gone, no cleanup runs, the storage
\* stays; the page then mounts the hook.
Reload ==
  /\ FreshInstance
  /\ calls' = [c \in DOMAIN calls |-> [calls[c] EXCEPT !.state = "closed"]]
  /\ pendingFetch' = [NoFetch EXCEPT !.media = TRUE]
  /\ lastEvent' = Event("reload", NoCall, TRUE)
  /\ UNCHANGED <<serverVars, hook, rendezvous, iceRestarts>>

InitIdentity == InitServerIdle /\ (\E h \in Hooks : InitHook(h))

NextIdentity ==
  \/ MediaGranted
  \/ PeerOpen
  \/ \E ok \in BOOLEAN : OpenResume(ok)
  \/ \E ok \in BOOLEAN : AnnounceResponse(ok)
  \/ Disconnect
  \/ Unmount
  \/ \E ok \in BOOLEAN : RemoveResponse(ok)
  \/ Mount
  \/ Reload

SpecIdentity == InitIdentity /\ [][NextIdentity]_vars

\* C31: the stored participant id is removed only by an explicit leave, and
\* an initialisation that follows no explicit leave starts with the id
\* the agent had before.
C31_IdSurvivesUnlessLeft ==
  [][/\ (localStorage # NoItem /\ lastEvent'.op # "disconnect")
          => localStorage' = localStorage
     /\ (lastEvent'.op \in {"mount", "reload"} /\ ~explicitLeave)
          => userIdCurrent' = userIdCurrent]_vars
(***************************************************************************)
(* Endpoint ids as strings.  A string is the sequence of its characters;   *)
(* room ids and user ids are prefixes of a uuid (api/rooms/route.ts line   *)
(* 10, hook line 601): IdLen hexadecimal digits.  The agent model above    *)
(* abbreviates an endpoint id to the pair PeerIdOf.                        *)
(***************************************************************************)
IdLen == 2
MaxEndpoints == 3

\* Hexadecimal digits that also occur in the literal "voicechat-".
HexDigits == {"a", "c"}

UuidPrefixes == [1..IdLen -> HexDigits]

voicechat == <<"v", "o", "i", "c", "e", "c", "h", "a", "t", "-">>

\* `voicechat-${roomId}-`
roomPrefix(roomId) == voicechat \o roomId \o <<"-">>

\* The endpoint id without the room: what a prefix that is not room-scoped
\* would give.
endpointIdUnscoped(roomId, userId) == voicechat \o userId

\* `${roomPrefixRef.current}${userIdRef.current}`
endpointId(roomId, userId) == roomPrefix(roomId) \o userId

\* String.prototype.indexOf: the first position (from 1) at which pattern
\* occurs in string, 0 if it does not occur.
indexOf(string, pattern) ==
  LET hits == {i \in 1..(Len(string) - Len(pattern) + 1) :
                 SubSeq(string, i, i + Len(pattern) - 1) = pattern}
  IN IF hits = {} THEN 0 ELSE CHOOSE i \in hits : \A j \in hits : i <= j

\* String.prototype.replace with a string pattern: the first occurrence is
\* replaced, a string without the pattern is returned as it is.
replace(string, pattern, replacement) ==
  LET at == indexOf(string, pattern)
  IN IF at = 0 THEN string
     ELSE SubSeq(string, 1, at - 1) \o replacement
            \o SubSeq(string, at + Len(pattern), Len(string))

Endpoint(roomId, userId) ==
  [roomId |-> roomId, userId |-> userId, peerId |-> endpointId(roomId, userId)]

\* new Peer(peerId): the agent of userId in roomId registers its endpoint
\* id at the PeerJS server.
CreatePeer(roomId, userId) ==
  /\ Cardinality(rendezvous.registered) < MaxEndpoints
  /\ Endpoint(roomId, userId) \notin rendezvous.registered
  /\ rendezvous' = [rendezvous EXCEPT
                      !.registered = @ \cup {Endpoint(roomId, userId)}]
  /\ UNCHANGED <<serverVars, hook, mounted, peerRef, peerState, localStreamRef,
                 isConnected, error, participantIds, peersRef, calls,
                 pollIntervals, participantPollingIntervalRef,
                 presenceIntervals, presenceIntervalRef, pendingFetch,
                 reconnectAttemptsRef, firstAnnounce, lastEvent, localStorage,
                 userIdCurrent, uuidCount, screenStream, explicitLeave,
                 iceRestarts>>

\* peer.on("call") at the agent `local`, called by an agent of its room:
\* call.peer is the caller's endpoint id.
ReceiveCall(local, caller) ==
  /\ local.roomId = caller.roomId
  /\ local # caller
  /\ rendezvous' = [rendezvous EXCEPT
       !.stripped = <<[local |-> local, caller |-> caller,
                       callerId |-> replace(caller.peerId,
                                            roomPrefix(local.roomId), <<>>)]>>]
  /\ UNCHANGED <<serverVars, hook, mounted, peerRef, peerState, localStreamRef,
                 isConnected, error, participantIds, peersRef, calls,
                 pollIntervals, participantPollingIntervalRef,
                 presenceIntervals, presenceIntervalRef, pendingFetch,
                 reconnectAttemptsRef, firstAnnounce, lastEvent, localStorage,
                 userIdCurrent, uuidCount, screenStream, explicitLeave,
                 iceRestarts>>

\* destroy(): an endpoint leaves the PeerJS server.
DestroyPeer(endpoint) ==
  /\ endpoint \in rendezvous.registered
  /\ rendezvous' = [registered |-> rendezvous.registered \ {endpoint},
                    stripped |-> <<>>]
  /\ UNCHANGED <<serverVars, hook, mounted, peerRef, peerState, localStreamRef,
                 isConnected, error, participantIds, peersRef, calls,
                 pollIntervals, participantPollingIntervalRef,
                 presenceIntervals, presenceIntervalRef, pendingFetch,
                 reconnectAttemptsRef, firstAnnounce, lastEvent, localStorage,
                 userIdCurrent, uuidCount, screenStream, explicitLeave,
                 iceRestarts>>

InitEndpoint == InitServerIdle /\ InitAgentIdle

NextEndpoint ==
  \/ \E roomId \in UuidPrefixes, userId \in UuidPrefixes : CreatePeer(roomId, userId)
  \/ \E local \in rendezvous.registered, caller \in rendezvous.registered :
       ReceiveCall(local, caller)
  \/ \E endpoint \in rendezvous.registered : DestroyPeer(endpoint)

SpecEndpoint == InitEndpoint /\ [][NextEndpoint]_vars

\* C32: an endpoint id is 'voicechat-<roomId>-' followed by the participant
\* id; endpoints of two different rooms never have the same id; stripping
\* the local room prefix from a caller's endpoint id gives the caller's
\* participant id.
C32_EndpointIdsRoomScoped ==
  /\ \A e \in rendezvous.registered :
       /\ startsWith(e.peerId, voicechat \o e.roomId \o <<"-">>)
       /\ SubSeq(e.peerId, Len(voicechat) + Len(e.roomId) + 2, Len(e.peerId))
            = e.userId
  /\ \A e1 \in rendezvous.registered, e2 \in rendezvous.registered :
       e1.roomId # e2.roomId => e1.peerId # e2.peerId
  /\ \A s \in Range(rendezvous.stripped) : s.callerId = s.caller.userId

\* Two agents with the same participant id in two rooms are registered, and
\* an agent has stripped the id of a caller of its room.
C32_SameUserTwoRooms ==
  /\ \E e1 \in rendezvous.registered, e2 \in rendezvous.registered :
       e1.roomId # e2.roomId /\ e1.userId = e2.userId
  /\ rendezvous.stripped # <<>>
(***************************************************************************)
(* Recovery: reconnects of the signalling connection and ICE restarts of   *)
(* the media sessions (second version of the hook).                        *)
(***************************************************************************)
MaxIceRestarts == 4

\* The link to the PeerJS server fails again while a reconnect is under way:
\* "disconnected" fires once more (lines 1324-1331).
ReconnectFailed ==
  /\ hook = "v2"
  /\ peerState = "connecting"
  /\ reconnectAttemptsRef > 0
  /\ isConnected' = FALSE
  /\ IF reconnectAttemptsRef < maxReconnectAttempts
       THEN /\ reconnectAttemptsRef' = reconnectAttemptsRef + 1
            /\ UNCHANGED peerState
       ELSE /\ peerState' = "disconnected"
            /\ UNCHANGED reconnectAttemptsRef
  /\ lastEvent' = Event("disconnected", NoCall, TRUE)
  /\ UNCHANGED <<serverVars, hook, mounted, peerRef, localStreamRef,
                 error, participantIds, peersRef, calls, pollIntervals,
                 participantPollingIntervalRef, presenceIntervals,
                 presenceIntervalRef, pendingFetch, firstAnnounce,
                 localStorage, userIdCurrent, uuidCount, screenStream,
                 explicitLeave, rendezvous, iceRestarts>>

\* peer.call.peerConnection.restartIce() on the call the table holds for
\* the user: one more restart of that connection.
restartIce(userId) ==
  IF peersRef[userId] = NoCall THEN iceRestarts
  ELSE [iceRestarts EXCEPT ![peersRef[userId]] = @ + 1]

\* The "error" event of an answered call whose connection has failed
\* (lines 1207-1213): the error is shown and the call's own connection is
\* restarted.  PeerJS reports the failure of a connection once and then
\* closes the call.
CallFailed(c) ==
  /\ hook = "v2"
  /\ calls[c].dir = "in"
  /\ calls[c].state = "open"
  /\ iceRestarts[c] < MaxIceRestarts
  /\ calls' = [calls EXCEPT ![c].state = "failed"]
  /\ error' = "Call error"
  /\ iceRestarts' = [iceRestarts EXCEPT ![c] = @ + 1]
  /\ lastEvent' = Event("error", c, FALSE)
  /\ UNCHANGED <<serverVars, hook, mounted, peerRef, peerState,
                 localStreamRef, isConnected, participantIds, peersRef,
                 pollIntervals, participantPollingIntervalRef,
                 presenceIntervals, presenceIntervalRef, pendingFetch,
                 reconnectAttemptsRef, firstAnnounce, localStorage,
                 userIdCurrent, uuidCount, screenStream, explicitLeave,
                 rendezvous>>

\* One run of checkAudioQuality (lines 1162-1189) on the stream of the
\* answered call c, at a time when the stream has been silent for more than
\* ten runs: the connection of the table entry of the caller is restarted.
\* The loop is re-armed by every run and is never cancelled.
QualityFrame(c) ==
  /\ hook = "v2"
  /\ calls[c].dir = "in"
  /\ calls[c].audio # "none"
  /\ peersRef[calls[c].peer] # NoCall
  /\ iceRestarts[peersRef[calls[c].peer]] < MaxIceRestarts
  /\ iceRestarts' = restartIce(calls[c].peer)
  /\ lastEvent' = Event("quality", c, FALSE)
  /\ UNCHANGED <<serverVars, hook, mounted, peerRef, peerState,
                 localStreamRef, isConnected, error, participantIds,
                 peersRef, calls, pollIntervals,
                 participantPollingIntervalRef, presenceIntervals,
                 presenceIntervalRef, pendingFetch,
                 reconnectAttemptsRef, firstAnnounce, localStorage,
                 userIdCurrent, uuidCount, screenStream, explicitLeave,
                 rendezvous>>

NextRecovery ==
  \/ MediaGranted
  \/ PeerOpen
  \/ \E ok \in BOOLEAN : OpenResume(ok)
  \/ PeerDisconnected
  \/ ReconnectFailed
  \/ \E peerId \in {PeerIdOf("u2")} : Len(calls) < 2 /\ IncomingCall(peerId)
  \/ \E c \in DOMAIN calls : CallStream(c)
  \/ \E c \in DOMAIN calls : CallFailed(c)
  \/ \E c \in DOMAIN calls : QualityFrame(c)
  \/ \E c \in DOMAIN calls : CallClose(c)

SpecRecovery == InitAgent /\ [][NextRecovery]_vars

\* C33: recovery is bounded.  Between two successful opens at most
\* maxReconnectAttempts reconnects are issued, then the agent stays
\* disconnected; and the restarts of a session's connection stop before
\* any given number (here MaxIceRestarts) is reached.
C33_RecoveryBounded ==
  /\ reconnectAttemptsRef <= maxReconnectAttempts
  /\ peerState = "disconnected" => reconnectAttemptsRef = maxReconnectAttempts
  /\ \A c \in DOMAIN calls : iceRestarts[c] < MaxIceRestarts

\* C34: the two loops run on independent timers.  An open agent polls
\* whether or not an announce is still unanswered, its first poll included,
\* and a poll tick or a poll response leaves the announce timer and the
\* announces in flight as they are.
C34_LoopsIndependent ==
  /\ [](peerState = "open" /\ mounted /\ isConnected => pollIntervals > 0)
  /\ [][lastEvent'.op \in {"poll", "pollTick"} =>
          /\ presenceIntervals' = presenceIntervals
          /\ presenceIntervalRef' = presenceIntervalRef
          /\ pendingFetch'.announces = pendingFetch.announces
          /\ pendingFetch'.opens = pendingFetch.opens]_vars

\* C38: at any time the agent has at most one live poll timer and at most
\* one live announce timer, and none of either when disconnect or the
\* cleanup of the effect has just run; a second "open" leaves no earlier
\* poll timer running.
C38_OneTimerEach ==
  /\ pollIntervals <= 1
  /\ presenceIntervals <= 1
  /\ lastEvent.op \in {"disconnect", "unmount"}
       => pollIntervals = 0 /\ presenceIntervals = 0

(***************************************************************************)
(* Lists against concurrent announces (the in-process builds).             *)
(***************************************************************************)
\* This step answers a list request with success: at once, or when the
\* handler suspended in roomExists resumes.
ListAnswered ==
  /\ lastResp' = Response("GET", 200, NoUser)
  /\ \/ requests' = requests + 1
     \/ \E slot \in Slots : inflight[slot].kind = "GET" /\ inflight'[slot].kind = "idle"

\* C35: a list never removes or overwrites a live record: every record that
\* is stored and not stale when the list is answered is stored afterwards.
C35_ListKeepsLiveRecords ==
  [][ListAnswered =>
       \A room \in Rooms : \A p \in Range(StoredEntries(room)) :
         now - p.timestamp < PRESENCE_TIMEOUT
           => p \in Range(StoredEntriesNext(room))]_vars

(***************************************************************************)
(* The age of a record by the server's own clock (route.ts build).         *)
(***************************************************************************)
\* Every announce renews the expiry of the room's key (pipeline.expire,
\* ROOM_EXPIRY seconds from the moment it is handled): the time at which the
\* endpoint handled the last announce of the room.  Every record of the room
\* was received then or earlier.
lastReceivedAt(room) == redisExpireAt[room] - ROOM_EXPIRY * 1000

\* C39: no record is listed PRESENCE_TIMEOUT or longer after the endpoint
\* received the announce that wrote it, whatever timestamp the request
\* carried: when the last announce of a room was received that long ago,
\* the list of the room is empty.
C39_ListedOnlyWithinTimeout ==
  \A room \in Rooms :
    (/\ redisExpireAt[room] # NoExpire
     /\ now - lastReceivedAt(room) >= PRESENCE_TIMEOUT)
    => Listed(room) = <<>>

(***************************************************************************)
(* A leave against the announces still in flight (route.ts build).         *)
(***************************************************************************)
\* The DELETE of a teardown reaches the endpoint and is handled (route.ts
\* lines 125-132).
RemoveArrives ==
  /\ variant = "redis"
  /\ pendingFetch.removes > 0
  /\ ~pendingFetch.removed
  /\ LET after == hdel(hgetall("r1", now), userIdRef)
     IN /\ redisHash' = [redisHash EXCEPT !["r1"] = after]
        /\ redisExpireAt' = [redisExpireAt EXCEPT
                               !["r1"] = IF after = EmptyHash THEN NoExpire ELSE @]
  /\ lastResp' = Response("DELETE", 200, NoUser)
  /\ pendingFetch' = [pendingFetch EXCEPT !.removed = TRUE]
  /\ UNCHANGED <<variant, now, roomTable, memVars, rateVars, hook, mounted,
                 peerRef, peerState, localStreamRef, isConnected, error,
                 participantIds, peersRef, calls, pollIntervals,
                 participantPollingIntervalRef, presenceIntervals,
                 presenceIntervalRef, reconnectAttemptsRef, firstAnnounce,
                 lastEvent, localStorage, userIdCurrent, uuidCount,
                 screenStream, explicitLeave, rendezvous, iceRestarts>>

NextLeave ==
  \/ MediaGranted
  \/ PeerOpen
  \/ AnnounceArrives
  \/ AnnounceAnswered
  \/ ClockTick
  \/ PollTick
  \/ PollAnswered
  \/ Disconnect
  \/ RemoveArrives
  \/ \E ok \in BOOLEAN : RemoveResponse(ok)

SpecLeave == InitAnnounce /\ [][NextLeave]_vars

\* C36: once the endpoint has handled the DELETE of the agent's leave, no
\* list of the room includes the agent.
C36_GoneAfterRemove ==
  (explicitLeave /\ pendingFetch.removed) => ~ListedNow(userIdRef)
(***************************************************************************)
(* Screen sharing (v2).  disconnect is memoised on [roomId, screenStream]  *)
(* (line 833) and is a dependency of the init effect (line 1361): a render *)
(* with another screenStream makes another disconnect, so React runs the   *)
(* cleanup of the effect, with the disconnect of the previous render, and  *)
(* then the effect again.                                                  *)
(***************************************************************************)

\* No handler of the running effect is suspended at an await.
Quiet ==
  /\ ~pendingFetch.media
  /\ pendingFetch.polls = 0
  /\ pendingFetch.opens = 0
  /\ pendingFetch.announces = <<>>

\* The init effect after the render that follows setScreenStream: its cleanup
\* (mounted = false; disconnect(), lines 1351-1355), then its body up to the
\* await of getUserMedia (lines 1219-1226) in a closure of its own.  The refs
\* are those of the same hook instance, and the user id effect, which depends
\* on roomId only, does not run again.
EffectRerun ==
  /\ cleanup
  /\ peerRef' = "null"
  /\ localStreamRef' = "null"
  /\ isConnected' = FALSE
  /\ participantIds' = {}
  /\ error' = "null"
  /\ mounted' = TRUE
  /\ reconnectAttemptsRef' = 0
  /\ firstAnnounce' = "none"

\* startScreenShare once getDisplayMedia resolved.  The screen calls it places
\* to the peers of the table are closed by the destroy of the Peer in the
\* cleanup that follows; the disconnect of the previous render holds no
\* screen stream and leaves the new one alone.
StartScreenShare ==
  /\ hook = "v2"
  /\ mounted
  /\ Quiet
  /\ screenStream = "null"
  /\ screenStream' = "stream"
  /\ EffectRerun
  /\ pendingFetch' = [pendingFetch EXCEPT !.removes = @ + 1, !.media = TRUE]
  /\ lastEvent' = Event("startScreenShare", NoCall, TRUE)
  /\ UNCHANGED <<serverVars, hook, userIdCurrent, uuidCount,
                 explicitLeave, rendezvous, iceRestarts>>

\* stopScreenShare of the current render: it acts only if a screen stream is
\* held; the stream is stopped and the state set to null.
StopScreenShare ==
  /\ hook = "v2"
  /\ mounted
  /\ Quiet
  /\ screenStream = "stream"
  /\ screenStream' = "null"
  /\ EffectRerun
  /\ pendingFetch' = [pendingFetch EXCEPT !.removes = @ + 1, !.media = TRUE]
  /\ lastEvent' = Event("stopScreenShare", NoCall, TRUE)
  /\ UNCHANGED <<serverVars, hook, userIdCurrent, uuidCount,
                 explicitLeave, rendezvous, iceRestarts>>

NextScreen ==
  \/ MediaGranted
  \/ PeerOpen
  \/ \E ok \in BOOLEAN : OpenResume(ok)
  \/ \E peerId \in {PeerIdOf("u2")} : Len(calls) < 2 /\ IncomingCall(peerId)
  \/ \E c \in DOMAIN calls : CallStream(c)
  \/ StartScreenShare
  \/ StopScreenShare
  \/ \E ok \in BOOLEAN : RemoveResponse(ok)

SpecScreen == InitAgent /\ [][NextScreen]_vars

\* C40: starting or stopping a screen share leaves the audio sessions of the
\* table, the signalling connection, both timers, the stored participant id
\* and the presence record (no DELETE leaves) as they were.
C40_ScreenShareFrame ==
  [][lastEvent'.op \in {"startScreenShare", "stopScreenShare"} =>
       /\ peersRef' = peersRef
       /\ calls' = calls
       /\ peerRef' = peerRef
       /\ peerState' = peerState
       /\ pollIntervals' = pollIntervals
       /\ presenceIntervals' = presenceIntervals
       /\ localStorage' = localStorage
       /\ pendingFetch'.removes = pendingFetch.removes]_vars
====
